---- MODULE Spec2Model ----
(***************************************************************************)
(* Model of the connector service's control plane (connectors/byoc.py) and *)
(* of the Jira adapter's producer/consumer pipeline                         *)
(* (connectors/sources/jira.py).                                            *)
(*                                                                          *)
(* The module holds several specifications over one set of variables:       *)
(*   Spec           sync-job lifecycle driven by several workers            *)
(*   SpecLifecycle  the same lifecycle without the passing of time          *)
(*   SpecHeartbeat  connector heartbeats issued by several workers          *)
(*   SpecConnector  one connector document and its mutators                 *)
(*   SpecNextSync   Connector.next_sync over every scheduling               *)
(*   SpecPrepare    Connector.prepare                                       *)
(*   SpecSyncDone   Connector.sync_done                                     *)
(*   SpecFiltering  Connector.validate_filtering                            *)
(*   SpecFilter     Filter.transform_filtering over Python objects          *)
(*   SpecSnapshot   a job created from a live connector                     *)
(*   SpecJira       JiraDataSource.get_docs (fair scheduling)               *)
(*   SpecJiraItems  JiraDataSource.get_docs (any scheduling, more items)    *)
(*   SpecPool       the ConcurrentTasks pool of get_docs                    *)
(*   SpecSyncNow    sync_now through the ticks of one orchestrator          *)
(*   SpecSupported  ConnectorIndex.supported_connectors                     *)
(*   SpecFeatures   Features.feature_enabled and sync_rules_enabled         *)
(*   SpecTerminate  SyncJob.done, fail, cancel, suspend with their arguments *)
(*   SpecApiCall    JiraDataSource._api_call, close and _generate_session   *)
(*   SpecPrepareTypes  Connector.prepare with two registered service types  *)
(*   SpecPaginate   JiraDataSource._paginated_api_call                      *)
(*   SpecReaper     the idle-job and orphan-job queries and the orphan reaper*)
(* Each specification leaves the variables of the other groups untouched.   *)
(***************************************************************************)
EXTENDS Integers, Sequences, FiniteSets, TLC

VARIABLES
    now,        \* wall clock, in seconds (shared by every specification)
    \* ---- sync-jobs index and workers (Spec)
    jobs,       \* the sync-jobs index: job id -> document
    held,       \* per worker: job wrapper fetched by the pending picker, not yet claimed
    driving,    \* per worker: jobs this worker claimed and is still syncing
    lastWrite,  \* who performed the latest write to the sync-jobs index
    \* ---- connector heartbeats (SpecHeartbeat)
    hbStored,   \* last_seen of the connector document in the connectors index
    hbSeen,     \* per worker: last_seen of the wrapper it loaded
    hbInFlight, \* per worker: last_seen carried by its update in flight (NoTime: none)
    \* ---- one connector document and its wrapper (SpecConnector)
    cdoc,       \* the connector document stored in the connectors index
    cwrap,      \* the Connector wrapper: the loaded fields its methods read
    cLast,      \* the latest operation on the wrapper, its argument and outcome
    \* ---- JiraDataSource.get_docs (SpecJira)
    jattach,    \* per issue: the number of attachments the Jira server reports
    jqueue,     \* self.queue: the items enqueued and not yet taken, oldest first
    jtasks,     \* self.tasks: the pending-producer counter
    jfetchers,  \* self.fetchers: the attachment producers scheduled and not yet over
    ppc,        \* _project_task: where it stands
    pnext,      \* _project_task: the next project to enqueue
    dpc,        \* _document_task: where it stands
    dnext,      \* _document_task: the issue it is working on
    gpc,        \* per issue: where its _grab_content task stands
    gnext,      \* per issue: the next attachment its _grab_content enqueues
    cpc,        \* get_docs itself (the consumer): where it stands
    jyielded,   \* the items get_docs has yielded to its caller, in order
    jfinished,  \* the FINISHED sentinels get_docs has taken, in order
    \* ---- Filter.transform_filtering (SpecFilter)
    fheap,      \* the Python objects in memory: cell -> dict, leaf value or free
    fres,       \* the object transform_filtering returned (Null before the call)
    forig,      \* the contents of the filter when it was constructed
    fLast,      \* the latest operation on the filter or on the result
    \* ---- one job created from the live connector (SpecSnapshot)
    sjob,       \* the job document, with its connector snapshot
    sLast,      \* the latest operation on the job, its argument and outcome
    \* ---- the queries of the two indices (SpecSupported, SpecReaper)
    cindex,     \* the connectors index: connector id -> document
    qLast,      \* the latest query or reaper pass, its arguments and result
    \* ---- the orchestrator's handling of one connector (SpecSyncNow)
    orch,       \* where the handling stands, the jobs there were when it began,
                \* the job it created, and the sync_now requests made so far
    \* ---- Features (SpecFeatures)
    feat,       \* self.features: the mapping the Features object holds
    featLast,   \* the latest call on the Features object and what it returned
    \* ---- SyncJob._terminate with its arguments (SpecTerminate)
    tjob,       \* the stored document of the job
    termLast,   \* the latest of done, fail, cancel and suspend: its arguments,
                \* the document it sent and the job it found
    \* ---- JiraDataSource._api_call and the HTTP session (SpecApiCall)
    retry_count, \* self.retry_count
    api,        \* per task running _api_call: its position, its local retry,
                \* the attempts made, the waits asked for, the responses
                \* yielded, the exception caught last and the one raised
    sess,       \* self.session, the sessions created and the ones closed
    \* ---- JiraDataSource._paginated_api_call (SpecPaginate)
    pg          \* the total the server reports, the call's position, its
                \* start_at and the start_at of the requests made

jobVars == <<jobs, held, driving, lastWrite>>
hbVars == <<hbStored, hbSeen, hbInFlight>>
connVars == <<cdoc, cwrap, cLast>>
jiraVars == <<jattach, jqueue, jtasks, jfetchers, ppc, pnext, dpc, dnext, gpc,
              gnext, cpc, jyielded, jfinished>>

filterVars == <<fheap, fres, forig, fLast>>

snapVars == <<sjob, sLast>>

queryVars == <<cindex, qLast>>

\* the variables of the specifications of single classes and functions
featVars == <<feat, featLast>>
termVars == <<tjob, termLast>>
apiVars == <<retry_count, api, sess>>
auxVars == <<featVars, termVars, apiVars, pg>>

vars == <<now, jobVars, hbVars, connVars, jiraVars, filterVars, snapVars,
          queryVars, orch, auxVars>>

\* what the actions of one group leave alone
notJob == <<hbVars, connVars, jiraVars, filterVars, snapVars, queryVars, orch,
    auxVars>>
notHb == <<jobVars, connVars, jiraVars, filterVars, snapVars, queryVars, orch,
    auxVars>>
notConn == <<jobVars, hbVars, jiraVars, filterVars, snapVars, queryVars, orch,
    auxVars>>
notJira == <<now, jobVars, hbVars, connVars, filterVars, snapVars, queryVars, orch,
    auxVars>>
notFilter == <<now, jobVars, hbVars, connVars, jiraVars, snapVars, queryVars, orch,
    auxVars>>
notSnap == <<now, jobVars, hbVars, jiraVars, filterVars, queryVars, orch,
    auxVars>>
notSupported ==
    <<now, jobVars, hbVars, connVars, jiraVars, filterVars, snapVars, orch,
      auxVars>>
notReaper == <<held, driving, lastWrite, hbVars, connVars, jiraVars, filterVars,
               snapVars, cindex, orch, auxVars>>
notOrch == <<held, driving, hbVars, jiraVars, filterVars, snapVars, queryVars,
             auxVars>>
notFeatures == <<termVars, apiVars, pg>>
notTerminate == <<featVars, apiVars, pg>>
notApi == <<featVars, termVars, pg>>
notPaginate == <<featVars, termVars, apiVars>>
notAux == <<now, jobVars, hbVars, connVars, jiraVars, filterVars, snapVars,
            queryVars, orch>>

-----------------------------------------------------------------------------
(* Shared conventions *)

\* Python None / JSON null in a string-valued field
Null == "null"

\* Python None in a timestamp field (the clock starts after it)
NoTime == 0

\* ES partial update: the patch's fields replace the stored ones, the rest is kept
Update(doc, patch) ==
    [k \in DOMAIN doc |-> IF k \in DOMAIN patch THEN patch[k] ELSE doc[k]]

\* iso_utc(): the current time as written into a document
iso_utc == now

-----------------------------------------------------------------------------
(* Bounds of the sync-job model *)

MaxJobs == 2
MaxTicks == 1
TickSeconds == 60

Workers == {"w1", "w2"}
ConnectorIds == {"c1"}
JobIds == 1..MaxJobs
NoJob == 0

-----------------------------------------------------------------------------
(* byoc.py constants *)

IDLE_JOBS_THRESHOLD == 60

JOB_NOT_FOUND_ERROR == "Couldn't find the job"
UNKNOWN_ERROR == "unknown error"
STALLED_ERROR == "stalled worker"

JobStatusTerminal == {"error", "completed", "canceled"}

\* SyncJob.terminated
terminated(job) == job.status \in JobStatusTerminal

\* a slot of the index holding no document
AbsentJob ==
    [status |-> "absent", connector_id |-> Null, trigger_method |-> Null,
     error |-> Null, worker_hostname |-> Null,
     created_at |-> NoTime, started_at |-> NoTime, last_seen |-> NoTime,
     completed_at |-> NoTime, canceled_at |-> NoTime]

\* SyncJobIndex.create: the job definition indexed for a connector
JobDef(connector_id, sync_now) ==
    Update(AbsentJob,
           [connector_id |-> connector_id,
            trigger_method |-> IF sync_now THEN "on_demand" ELSE "scheduled",
            status |-> "pending",
            created_at |-> iso_utc,
            last_seen |-> iso_utc])

\* a claim that sends the whole document it holds, without the connector
ClaimDoc_DropsConnector(w) ==
    [status |-> "in_progress", started_at |-> iso_utc, last_seen |-> iso_utc,
     worker_hostname |-> w, connector |-> [id |-> Null]]

\* a claim that does not record the claiming host
ClaimDoc_NoHostname(w) ==
    [status |-> "in_progress", started_at |-> iso_utc, last_seen |-> iso_utc]

\* SyncJob.claim: the document sent to the index
ClaimDoc(w) ==
    [status |-> "in_progress", started_at |-> iso_utc, last_seen |-> iso_utc,
     worker_hostname |-> w]

\* a _terminate that stamps completed_at for completed jobs only
TerminateDoc_CompletedOnly(status, error) ==
    LET base == [last_seen |-> iso_utc, status |-> status, error |-> error]
        withCompleted ==
            IF status = "completed" THEN [completed_at |-> iso_utc] ELSE <<>>
        withCanceled ==
            IF status = "canceled" THEN [canceled_at |-> iso_utc] ELSE <<>>
    IN  base @@ withCompleted @@ withCanceled

\* SyncJob._terminate: the document sent to the index
TerminateDoc(status, error) ==
    LET base == [last_seen |-> iso_utc, status |-> status, error |-> error]
        withCompleted ==
            IF status \in {"error", "completed", "canceled"}
            THEN [completed_at |-> iso_utc] ELSE <<>>
        withCanceled ==
            IF status = "canceled" THEN [canceled_at |-> iso_utc] ELSE <<>>
    IN  base @@ withCompleted @@ withCanceled

\* SyncJobIndex.pending_jobs: the ids the query matches
PendingJobs(connector_ids) ==
    {j \in JobIds : /\ jobs[j].status \in {"pending", "suspended"}
                    /\ jobs[j].connector_id \in connector_ids}

\* an idle_jobs whose range excludes the threshold itself
IdleJobs_Strict(connector_ids) ==
    {j \in JobIds : /\ jobs[j].connector_id \in connector_ids
                    /\ jobs[j].status \in {"in_progress", "canceling"}
                    /\ jobs[j].last_seen < now - IDLE_JOBS_THRESHOLD}

\* SyncJobIndex.idle_jobs: the ids the query matches
IdleJobs(connector_ids) ==
    {j \in JobIds : /\ jobs[j].connector_id \in connector_ids
                    /\ jobs[j].status \in {"in_progress", "canceling"}
                    /\ jobs[j].last_seen <= now - IDLE_JOBS_THRESHOLD}

\* the workers that claimed job j and have not finished driving it
Owners(j) == {w \in Workers : j \in driving[w]}

\* the per-connector-id mutex of one orchestrator process: it drives at most
\* one job of a connector at a time
MutexFree(w, connector_id) ==
    \A j \in driving[w] : jobs[j].connector_id # connector_id

-----------------------------------------------------------------------------
(* Actions of the sync-job model *)

JobInit ==
    /\ jobs = [j \in JobIds |-> AbsentJob]
    /\ held = [w \in Workers |-> NoJob]
    /\ driving = [w \in Workers |-> {}]
    /\ lastWrite = [job |-> NoJob, by |-> Null, role |-> Null]

\* time passes
Tick ==
    /\ now + TickSeconds <= 1 + MaxTicks * TickSeconds
    /\ now' = now + TickSeconds
    /\ UNCHANGED <<jobs, held, driving, lastWrite>>
    /\ UNCHANGED notJob

\* SyncJobIndex.create(connector), by a scheduler or out-of-band
Create(c, sync_now) ==
    /\ \E j \in JobIds :
        /\ jobs[j].status = "absent"
        /\ \A i \in JobIds : i < j => jobs[i].status # "absent"
        /\ jobs' = [jobs EXCEPT ![j] = JobDef(c, sync_now)]
        /\ lastWrite' = [job |-> j, by |-> Null, role |-> "creator"]
    /\ UNCHANGED <<now, held, driving>>
    /\ UNCHANGED notJob

\* the pending picker's query hands worker w the wrapper of job j
FetchPending(w, j) ==
    /\ held[w] = NoJob
    /\ j \in PendingJobs(ConnectorIds)
    /\ MutexFree(w, jobs[j].connector_id)
    /\ held' = [held EXCEPT ![w] = j]
    /\ UNCHANGED <<now, jobs, driving, lastWrite>>
    /\ UNCHANGED notJob

\* SyncJob.claim() on the fetched wrapper; the worker then runs the sync
Claim(w) ==
    /\ held[w] # NoJob
    /\ LET j == held[w] IN
        /\ jobs' = [jobs EXCEPT ![j] = Update(jobs[j], ClaimDoc(w))]
        /\ driving' = [driving EXCEPT ![w] = @ \cup {j}]
        /\ lastWrite' = [job |-> j, by |-> w, role |-> "owner"]
    /\ held' = [held EXCEPT ![w] = NoJob]
    /\ UNCHANGED now
    /\ UNCHANGED notJob

\* SyncJob._terminate called by the worker that drives the job
Terminate(w, j, status, error) ==
    /\ j \in driving[w]
    /\ jobs' = [jobs EXCEPT ![j] = Update(jobs[j], TerminateDoc(status, error))]
    /\ driving' = [driving EXCEPT ![w] = @ \ {j}]
    /\ lastWrite' = [job |-> j, by |-> w, role |-> "owner"]
    /\ UNCHANGED <<now, held>>
    /\ UNCHANGED notJob

\* SyncJob.done
Done(w, j) == Terminate(w, j, "completed", Null)

\* SyncJob.fail
Fail(w, j) == Terminate(w, j, "error", "adapter error")

\* SyncJob.cancel
Cancel(w, j) == Terminate(w, j, "canceled", Null)

\* SyncJob.suspend
Suspend(w, j) == Terminate(w, j, "suspended", Null)

\* the idle reaper (of any worker process) marks an idle job errored
IdleReap(j) ==
    /\ j \in IdleJobs(ConnectorIds)
    /\ jobs' = [jobs EXCEPT ![j] = Update(jobs[j], TerminateDoc("error", STALLED_ERROR))]
    /\ lastWrite' = [job |-> j, by |-> Null, role |-> "reaper"]
    /\ UNCHANGED <<now, held, driving>>
    /\ UNCHANGED notJob

JobNext ==
    \/ Tick
    \/ \E c \in ConnectorIds, s \in BOOLEAN : Create(c, s)
    \/ \E w \in Workers, j \in JobIds : FetchPending(w, j)
    \/ \E w \in Workers : Claim(w)
    \/ \E w \in Workers, j \in JobIds : Done(w, j)
    \/ \E w \in Workers, j \in JobIds : Fail(w, j)
    \/ \E w \in Workers, j \in JobIds : Cancel(w, j)
    \/ \E w \in Workers, j \in JobIds : Suspend(w, j)
    \/ \E j \in JobIds : IdleReap(j)

\* create (by the scheduler), claim, done, fail, cancel and suspend by the
\* workers, at one instant
LifecycleNext ==
    \/ \E c \in ConnectorIds : Create(c, FALSE)
    \/ \E w \in Workers, j \in JobIds : FetchPending(w, j)
    \/ \E w \in Workers : Claim(w)
    \/ \E w \in Workers, j \in JobIds : Done(w, j)
    \/ \E w \in Workers, j \in JobIds : Fail(w, j)
    \/ \E w \in Workers, j \in JobIds : Cancel(w, j)
    \/ \E w \in Workers, j \in JobIds : Suspend(w, j)

-----------------------------------------------------------------------------
(* Connector heartbeats *)

MaxHbTicks == 3
MaxInterval == 1

HbInit ==
    /\ hbStored = NoTime
    /\ hbSeen = [w \in Workers |-> NoTime]
    /\ hbInFlight = [w \in Workers |-> NoTime]

\* Connector.heartbeat: whether the wrapper's last_seen asks for a heartbeat
HeartbeatDue(last_seen, interval) ==
    \/ last_seen = NoTime
    \/ now - last_seen > interval

\* ConnectorIndex.heartbeat: the document sent to the index
HeartbeatDoc == [last_seen |-> iso_utc]

\* one second passes
HbTick ==
    /\ now < 1 + MaxHbTicks
    /\ now' = now + 1
    /\ UNCHANGED hbVars
    /\ UNCHANGED notHb

\* worker w loads the connector from the index (a tick's supported_connectors)
HbLoad(w) ==
    /\ hbInFlight[w] = NoTime
    /\ hbSeen' = [hbSeen EXCEPT ![w] = hbStored]
    /\ UNCHANGED <<now, hbStored, hbInFlight>>
    /\ UNCHANGED notHb

\* Connector.heartbeat(interval) up to the point where the update is sent:
\* the clock is read into the document before the request leaves
Heartbeat(w, interval) ==
    /\ hbInFlight[w] = NoTime
    /\ IF HeartbeatDue(hbSeen[w], interval)
       THEN hbInFlight' = [hbInFlight EXCEPT ![w] = HeartbeatDoc.last_seen]
       ELSE UNCHANGED hbInFlight
    /\ UNCHANGED <<now, hbStored, hbSeen>>
    /\ UNCHANGED notHb

\* the index applies worker w's update
HbApply(w) ==
    /\ hbInFlight[w] # NoTime
    /\ hbStored' = Update([last_seen |-> hbStored], [last_seen |-> hbInFlight[w]]).last_seen
    /\ hbInFlight' = [hbInFlight EXCEPT ![w] = NoTime]
    /\ UNCHANGED <<now, hbSeen>>
    /\ UNCHANGED notHb

HbNext ==
    \/ HbTick
    \/ \E w \in Workers : HbLoad(w)
    \/ \E w \in Workers, i \in 0..MaxInterval : Heartbeat(w, i)
    \/ \E w \in Workers : HbApply(w)

-----------------------------------------------------------------------------
(* The Connector wrapper *)

MaxConnTicks == 1
MaxPeriod == 2

SYNC_DISABLED == -1

DEFAULT_DOMAIN == "DEFAULT"

\* a JSON boolean is "true" or "false"; Null stands for an absent or null field
Truthy(v) == v = "true"

\* ESDocument.get(key, default=...) and dict.get(key, default)
Get(v, default) == IF v = Null THEN default ELSE v

\* DataSourceConfiguration.is_empty
ConfigIsEmpty(configuration) == configuration = "empty"

\* source_klass.get_simple_configuration(): the adapter's default descriptor
SimpleConfiguration(service_type) == "defaults_" \o service_type

\* config["sources"]: the service types the service registry knows
Sources == {"jira", "mongo"}

\* next_run(interval): seconds until the next firing of a schedule that
\* fires every `interval` seconds
next_run(interval) == interval - (now % interval)

\* next_sync with the scheduling looked at before sync_now
NextSync_SchedulingFirst(c) ==
    IF ~Truthy(Get(c.scheduling.enabled, "false"))
    THEN SYNC_DISABLED
    ELSE IF Truthy(Get(c.sync_now, "false"))
         THEN 0
         ELSE next_run(c.scheduling.interval)

\* Connector.next_sync
NextSync(c) ==
    IF Truthy(Get(c.sync_now, "false"))
    THEN 0
    ELSE IF ~Truthy(Get(c.scheduling.enabled, "false"))
         THEN SYNC_DISABLED
         ELSE next_run(c.scheduling.interval)

\* a reset_sync_now_flag that leaves the flag up
ResetSyncNowDoc_Keeps == [sync_now |-> "true"]

\* Connector.reset_sync_now_flag: the document sent to the index
ResetSyncNowDoc == [sync_now |-> "false"]

\* Connector.sync_starts: the document sent to the index
SyncStartsDoc ==
    [last_sync_status |-> "in_progress", last_sync_error |-> Null,
     status |-> "connected"]

\* Connector.error: the document sent to the index
ErrorDoc(msg) == [status |-> "error", error |-> msg]

\* the job handed to sync_done: `present` is false for None
NoJobArg ==
    [present |-> FALSE, status |-> Null, error |-> Null,
     indexed_document_count |-> 0, deleted_document_count |-> 0]

JobArgStatuses ==
    {"pending", "in_progress", "canceling", "canceled", "suspended",
     "completed", "error", Null}

JobArgs ==
    {NoJobArg} \cup
    [present : {TRUE}, status : JobArgStatuses, error : {Null, "boom"},
     indexed_document_count : {3}, deleted_document_count : {1}]

\* sync_done taking a missing job for a job without status
SyncDoneJobStatus_MissingIsUnset(job) == IF ~job.present THEN Null ELSE job.status

\* Connector.sync_done: the job status recorded for the job
SyncDoneJobStatus(job) == IF ~job.present THEN "error" ELSE job.status

\* sync_done without the substitution of "unknown error"
SyncDoneJobError_NoSubstitute(job, job_status) ==
    IF ~job.present THEN JOB_NOT_FOUND_ERROR ELSE job.error

\* Connector.sync_done: the error recorded for the job
SyncDoneJobError(job, job_status) ==
    LET job_error == IF ~job.present THEN JOB_NOT_FOUND_ERROR ELSE job.error
    IN  IF job_error = Null /\ job_status = "error"
        THEN UNKNOWN_ERROR ELSE job_error

\* Connector.sync_done: the connector status that follows from the job status
SyncDoneConnectorStatus(job_status) ==
    IF job_status = "error" THEN "error" ELSE "connected"

\* sync_done that forgets to write the connector status
SyncDoneBase_NoStatus(job_status, job_error, connector_status) ==
    [last_sync_status |-> job_status,
     last_synced |-> iso_utc,
     last_sync_error |-> job_error,
     error |-> job_error]

\* Connector.sync_done: the fields written whatever the job is
SyncDoneBase(job_status, job_error, connector_status) ==
    [last_sync_status |-> job_status,
     last_synced |-> iso_utc,
     last_sync_error |-> job_error,
     status |-> connector_status,
     error |-> job_error]

\* a job document without the count field
NoCount == -1

\* SyncJob.indexed_document_count, deleted_document_count: get(..., default=0)
CountOf(v) == IF v = NoCount THEN 0 ELSE v

\* the jobs handed to sync_done, with and without their counts
SyncDoneJobs ==
    {NoJobArg} \cup
    [present : {TRUE}, status : JobArgStatuses \ {Null}, error : {Null},
     indexed_document_count : {NoCount, 3}, deleted_document_count : {NoCount, 1}]

\* a sync_done that copies the counts of every job it is given
SyncDoneDoc_AlwaysCounts(job) ==
    LET job_status == SyncDoneJobStatus(job)
        job_error == SyncDoneJobError(job, job_status)
        connector_status == SyncDoneConnectorStatus(job_status)
        counts == IF job.present
                  THEN [last_indexed_document_count |-> CountOf(job.indexed_document_count),
                        last_deleted_document_count |-> CountOf(job.deleted_document_count)]
                  ELSE <<>>
    IN  SyncDoneBase(job_status, job_error, connector_status) @@ counts

\* Connector.sync_done: the document sent to the index
SyncDoneDoc(job) ==
    LET job_status == SyncDoneJobStatus(job)
        job_error == SyncDoneJobError(job, job_status)
        connector_status == SyncDoneConnectorStatus(job_status)
        counts == IF job.present /\ terminated(job)
                  THEN [last_indexed_document_count |-> CountOf(job.indexed_document_count),
                        last_deleted_document_count |-> CountOf(job.deleted_document_count)]
                  ELSE <<>>
    IN  SyncDoneBase(job_status, job_error, connector_status) @@ counts

\* Filtering.get_draft_filter / get_filter: the draft of the first bundle of
\* the domain, or the empty Filter, whose validation state defaults to valid
EmptyFilter ==
    [rules |-> "none", advanced_snippet |-> "none",
     validation |-> [state |-> "valid", errors |-> "none"]]

GetFilter(filtering, filter_state, domain) ==
    LET hits == {i \in DOMAIN filtering : filtering[i].domain = domain}
    IN  IF hits = {} THEN EmptyFilter
        ELSE LET first == CHOOSE i \in hits : \A k \in hits : i <= k
             IN  filtering[first][filter_state]

\* a validate_filtering that validates whatever the state of the draft is
DraftIsEdited_Always(filtering) == TRUE

\* Connector.validate_filtering: whether the draft of the default domain is in
\* state edited
DraftIsEdited(filtering) ==
    GetFilter(filtering, "draft", DEFAULT_DOMAIN).validation.state = "edited"

\* a validate_filtering that never promotes the draft
ValidatedFiltering_NoPromote(filtering, result) ==
    [i \in DOMAIN filtering |->
        IF filtering[i].domain = DEFAULT_DOMAIN
        THEN [filtering[i] EXCEPT !.draft = [@ EXCEPT !.validation = result]]
        ELSE filtering[i]]

\* Connector.validate_filtering: the filtering list written back
ValidatedFiltering(filtering, result) ==
    [i \in DOMAIN filtering |->
        IF filtering[i].domain = DEFAULT_DOMAIN
        THEN LET draft == [filtering[i].draft EXCEPT !.validation = result]
             IN  [filtering[i] EXCEPT
                    !.draft = draft,
                    !.active = IF result.state = "valid" THEN draft ELSE @]
        ELSE filtering[i]]

\* a prepare that looks up the connector's own service type in the sources
PrepareOutcome_OwnServiceType(c, config, klass_ok) ==
    IF c.id # config.connector_id
    THEN [kind |-> "noop", doc |-> <<>>]
    ELSE IF c.service_type # Null /\ ~ConfigIsEmpty(c.configuration)
    THEN [kind |-> "noop", doc |-> <<>>]
    ELSE IF c.service_type = Null /\ config.service_type = ""
    THEN [kind |-> "service_type_not_configured", doc |-> <<>>]
    ELSE LET doc1 == IF c.service_type = Null
                     THEN [service_type |-> config.service_type] ELSE <<>>
             own == IF c.service_type = Null THEN config.service_type
                    ELSE c.service_type
         IN  IF ~ConfigIsEmpty(c.configuration)
             THEN [kind |-> "update", doc |-> doc1]
             ELSE IF own \notin Sources
             THEN [kind |-> "service_type_not_supported", doc |-> <<>>]
             ELSE IF ~klass_ok
             THEN [kind |-> "data_source_error", doc |-> <<>>]
             ELSE [kind |-> "update",
                   doc |-> doc1 @@
                           [configuration |-> SimpleConfiguration(own),
                            status |-> "needs_configuration"]]

\* a prepare that populates the configuration without touching the status
PrepareOutcome_NoStatus(c, config, klass_ok) ==
    IF c.id # config.connector_id
    THEN [kind |-> "noop", doc |-> <<>>]
    ELSE IF c.service_type # Null /\ ~ConfigIsEmpty(c.configuration)
    THEN [kind |-> "noop", doc |-> <<>>]
    ELSE IF c.service_type = Null /\ config.service_type = ""
    THEN [kind |-> "service_type_not_configured", doc |-> <<>>]
    ELSE LET doc1 == IF c.service_type = Null
                     THEN [service_type |-> config.service_type] ELSE <<>>
         IN  IF ~ConfigIsEmpty(c.configuration)
             THEN [kind |-> "update", doc |-> doc1]
             ELSE IF config.service_type \notin Sources
             THEN [kind |-> "service_type_not_supported", doc |-> <<>>]
             ELSE IF ~klass_ok
             THEN [kind |-> "data_source_error", doc |-> <<>>]
             ELSE [kind |-> "update",
                   doc |-> doc1 @@
                           [configuration |-> SimpleConfiguration(config.service_type)]]

\* a prepare that does not compare the configured connector id with its own
PrepareOutcome_AnyId(c, config, klass_ok) ==
    IF c.service_type # Null /\ ~ConfigIsEmpty(c.configuration)
    THEN [kind |-> "noop", doc |-> <<>>]
    ELSE IF c.service_type = Null /\ config.service_type = ""
    THEN [kind |-> "service_type_not_configured", doc |-> <<>>]
    ELSE LET doc1 == IF c.service_type = Null
                     THEN [service_type |-> config.service_type] ELSE <<>>
         IN  IF ~ConfigIsEmpty(c.configuration)
             THEN [kind |-> "update", doc |-> doc1]
             ELSE IF config.service_type \notin Sources
             THEN [kind |-> "service_type_not_supported", doc |-> <<>>]
             ELSE IF ~klass_ok
             THEN [kind |-> "data_source_error", doc |-> <<>>]
             ELSE [kind |-> "update",
                   doc |-> doc1 @@
                           [configuration |-> SimpleConfiguration(config.service_type),
                            status |-> "needs_configuration"]]

\* Connector.prepare: "noop", the error raised, or "update" with the document
\* to send
PrepareOutcome(c, config, klass_ok) ==
    IF c.id # config.connector_id
    THEN [kind |-> "noop", doc |-> <<>>]
    ELSE IF c.service_type # Null /\ ~ConfigIsEmpty(c.configuration)
    THEN [kind |-> "noop", doc |-> <<>>]
    ELSE IF c.service_type = Null /\ config.service_type = ""
    THEN [kind |-> "service_type_not_configured", doc |-> <<>>]
    ELSE LET doc1 == IF c.service_type = Null
                     THEN [service_type |-> config.service_type] ELSE <<>>
         IN  IF ~ConfigIsEmpty(c.configuration)
             THEN [kind |-> "update", doc |-> doc1]
             ELSE IF config.service_type \notin Sources
             THEN [kind |-> "service_type_not_supported", doc |-> <<>>]
             ELSE IF ~klass_ok
             THEN [kind |-> "data_source_error", doc |-> <<>>]
             ELSE [kind |-> "update",
                   doc |-> doc1 @@
                           [configuration |-> SimpleConfiguration(config.service_type),
                            status |-> "needs_configuration"]]

Filter0 ==
    [rules |-> "r1", advanced_snippet |-> "a1",
     validation |-> [state |-> "edited", errors |-> "none"]]

\* connector documents as created outside the core, before any sync
StartDocs(service_types, configurations, flags, periods) ==
    [id : {"c1"},
     service_type : service_types,
     configuration : configurations,
     status : {"created"},
     error : {Null},
     sync_now : flags,
     scheduling : [enabled : flags, interval : periods],
     last_sync_status : {Null},
     last_sync_error : {Null},
     last_synced : {NoTime},
     last_indexed_document_count : {0},
     last_deleted_document_count : {0},
     filtering : {<<[domain |-> DEFAULT_DOMAIN, draft |-> Filter0,
                     active |-> EmptyFilter]>>},
     index_name : {"search-c1"},
     language : {"en"},
     pipeline : {Null}]

PrepareConfigs ==
    [connector_id : {"c1", "c2"}, service_type : {"", "jira", "zoom"}]

\* configs for this connector that name no service type or a registered one
TypedConfigs ==
    [connector_id : {"c1"}, service_type : {""} \cup Sources]

ValidationResults ==
    {[state |-> "valid", errors |-> "none"],
     [state |-> "invalid", errors |-> "bad rule"]}

\* the fields of a loaded document that the wrapper's methods read
Wrapper(doc) ==
    [id |-> doc.id, service_type |-> doc.service_type,
     configuration |-> doc.configuration, sync_now |-> doc.sync_now,
     scheduling |-> doc.scheduling, filtering |-> doc.filtering,
     index_name |-> doc.index_name, language |-> doc.language,
     pipeline |-> doc.pipeline]

\* the record of an operation, before its argument and outcome are filled in
Op(name) == [op |-> name, job |-> NoJobArg, ret |-> 0, outcome |-> "ok"]

\* connectors that differ in service type and configuration
ConnInit ==
    /\ cdoc \in StartDocs({Null, "jira"}, {"empty", "filled"}, {"true"}, {MaxPeriod})
    /\ cwrap = Wrapper(cdoc)
    /\ cLast = Op("load")

\* connectors of either registered service type, or of none
TypedConnInit ==
    /\ cdoc \in StartDocs({Null} \cup Sources, {"empty", "filled"}, {"true"},
                          {MaxPeriod})
    /\ cwrap = Wrapper(cdoc)
    /\ cLast = Op("load")

\* connectors that differ in sync_now and scheduling
NextSyncInit ==
    /\ cdoc \in StartDocs({"jira"}, {"filled"}, {"true", "false", Null}, 1..MaxPeriod)
    /\ cwrap = Wrapper(cdoc)
    /\ cLast = Op("load")

\* time passes
ConnTick ==
    /\ now < 1 + MaxConnTicks
    /\ now' = now + 1
    /\ UNCHANGED connVars
    /\ UNCHANGED notConn

\* ESDocument.reload, or a fresh wrapper from a query
ConnLoad ==
    /\ cwrap' = Wrapper(cdoc)
    /\ cLast' = Op("load")
    /\ UNCHANGED <<now, cdoc>>
    /\ UNCHANGED notConn

\* Connector.next_sync()
CallNextSync ==
    /\ cLast' = [Op("next_sync") EXCEPT !.ret = NextSync(cwrap)]
    /\ UNCHANGED <<now, cdoc, cwrap>>
    /\ UNCHANGED notConn

\* Connector.reset_sync_now_flag()
ResetSyncNowFlag ==
    /\ cdoc' = Update(cdoc, ResetSyncNowDoc)
    /\ cLast' = Op("reset_sync_now_flag")
    /\ UNCHANGED <<now, cwrap>>
    /\ UNCHANGED notConn

\* Connector.sync_starts()
SyncStarts ==
    /\ cdoc' = Update(cdoc, SyncStartsDoc)
    /\ cLast' = Op("sync_starts")
    /\ UNCHANGED <<now, cwrap>>
    /\ UNCHANGED notConn

\* Connector.error(error)
ConnError(msg) ==
    /\ cdoc' = Update(cdoc, ErrorDoc(msg))
    /\ cLast' = Op("error")
    /\ UNCHANGED <<now, cwrap>>
    /\ UNCHANGED notConn

\* Connector.sync_done(job)
SyncDone(job) ==
    /\ cdoc' = Update(cdoc, SyncDoneDoc(job))
    /\ cLast' = [Op("sync_done") EXCEPT !.job = job]
    /\ UNCHANGED <<now, cwrap>>
    /\ UNCHANGED notConn

\* Connector.prepare(config); update_ok is whether the index accepts the update
Prepare(config, klass_ok, update_ok) ==
    LET out == PrepareOutcome(cwrap, config, klass_ok) IN
    /\ IF out.kind = "update" /\ update_ok
       THEN /\ cdoc' = Update(cdoc, out.doc)
            /\ cwrap' = Wrapper(cdoc')
            /\ cLast' = [Op("prepare") EXCEPT !.outcome = "updated"]
       ELSE /\ UNCHANGED <<cdoc, cwrap>>
            /\ cLast' = [Op("prepare") EXCEPT !.outcome =
                            IF out.kind = "update" THEN "connector_update_error"
                            ELSE out.kind]
    /\ UNCHANGED now
    /\ UNCHANGED notConn

\* Connector.validate_filtering(validator); result is the validator's verdict
ValidateFiltering(result) ==
    /\ IF ~DraftIsEdited(cwrap.filtering)
       THEN /\ UNCHANGED <<cdoc, cwrap>>
            /\ cLast' = [Op("validate_filtering") EXCEPT !.outcome = "skipped"]
       ELSE /\ cdoc' = Update(cdoc, [filtering |-> ValidatedFiltering(cwrap.filtering, result)])
            /\ cwrap' = Wrapper(cdoc')
            /\ cLast' = [Op("validate_filtering") EXCEPT !.outcome = result.state]
    /\ UNCHANGED now
    /\ UNCHANGED notConn

ConnNext ==
    \/ ConnTick
    \/ ConnLoad
    \/ CallNextSync
    \/ ResetSyncNowFlag
    \/ SyncStarts
    \/ ConnError("boom")
    \/ \E job \in JobArgs : SyncDone(job)
    \/ \E config \in PrepareConfigs, k \in BOOLEAN, u \in BOOLEAN : Prepare(config, k, u)
    \/ \E result \in ValidationResults : ValidateFiltering(result)

NextSyncNext ==
    \/ ConnTick
    \/ ConnLoad
    \/ CallNextSync
    \/ ResetSyncNowFlag

\* sync_done after syncs of every outcome, as time passes
SyncDoneNext ==
    \/ ConnTick
    \/ \E job \in SyncDoneJobs : SyncDone(job)

\* a user fills in the configuration of the stored connector
UserConfigure ==
    /\ cdoc.configuration # "filled"
    /\ cdoc' = Update(cdoc, [configuration |-> "filled", status |-> "configured"])
    /\ cLast' = Op("configure")
    /\ UNCHANGED <<now, cwrap>>
    /\ UNCHANGED notConn

\* prepare, between the writes of a sync and of a user that leave the wrapper
\* behind
PrepareNext ==
    \/ ConnLoad
    \/ UserConfigure
    \/ ResetSyncNowFlag
    \/ SyncStarts
    \/ ConnError("boom")
    \/ \E config \in PrepareConfigs, k \in BOOLEAN, u \in BOOLEAN : Prepare(config, k, u)

-----------------------------------------------------------------------------
(* Connector.validate_filtering over connectors of every filtering *)

\* a filtering bundle of a domain whose draft is in a validation state
Bundle(domain, state) ==
    [domain |-> domain,
     draft |-> [Filter0 EXCEPT !.validation.state = state],
     active |-> EmptyFilter]

\* no filtering at all, another domain only, the default domain with a draft
\* in each state, and the default domain behind another one
FilteringChoices ==
    {<<>>, <<Bundle("other", "edited")>>,
     <<Bundle("other", "edited"), Bundle(DEFAULT_DOMAIN, "edited")>>}
    \cup {<<Bundle(DEFAULT_DOMAIN, s)>> : s \in {"edited", "valid", "invalid"}}

FilteringInit ==
    /\ \E d \in StartDocs({"jira"}, {"filled"}, {"true"}, {MaxPeriod}) :
       \E f \in FilteringChoices :
           cdoc = [d EXCEPT !.filtering = f]
    /\ cwrap = Wrapper(cdoc)
    /\ cLast = Op("load")

\* a user edits the draft of every bundle in the connectors index
EditDraft(rules) ==
    /\ cdoc.filtering # <<>>
    /\ cdoc' = Update(cdoc,
                 [filtering |->
                    [i \in DOMAIN cdoc.filtering |->
                       [cdoc.filtering[i] EXCEPT
                          !.draft = [rules |-> rules, advanced_snippet |-> "a1",
                                     validation |-> [state |-> "edited",
                                                     errors |-> "none"]]]]])
    /\ cLast' = Op("edit")
    /\ UNCHANGED <<now, cwrap>>
    /\ UNCHANGED notConn

FilteringNext ==
    \/ ConnLoad
    \/ \E rules \in {"r2", "r3"} : EditDraft(rules)
    \/ \E result \in ValidationResults : ValidateFiltering(result)

-----------------------------------------------------------------------------
(* Filter (a dict) and Filter.transform_filtering, over Python objects *)

\* the keys a filter of the connectors index may carry
FilterKeys == {"advanced_snippet", "rules", "validation"}

\* the values a key may hold: a dict, a list, a validation
LeafValues(k) ==
    CASE k = "advanced_snippet" -> {"{}", "{value}"}
      [] k = "rules" -> {"[]", "[r1]"}
      [] k = "validation" -> {"edited", "valid"}

\* a value written into an object by code that mutates it
Mutated == "mutated"

\* memory cells: the dict of an object graph and the value under each key
Cells == {"self", "new"} \X ({"dict"} \cup FilterKeys)

FreeCell == [kind |-> "free"]
DictCell(items) == [kind |-> "dict", items |-> items]
LeafCell(val) == [kind |-> "leaf", val |-> val]

\* the Filter object transform_filtering is called on
Self == <<"self", "dict">>

\* the contents of the dict at cell d, key by key
DeepValue(heap, d) ==
    [k \in DOMAIN heap[d].items |-> heap[heap[d].items[k]].val]

\* copy.copy in place of deepcopy: a new dict that shares the values
TransformFiltering_Shallow(heap, d) ==
    LET items == heap[d].items
        new == <<"new", "dict">>
    IN  IF DOMAIN items = {}
        THEN [ret |-> new,
              heap |-> [c \in Cells |->
                          IF c = new
                          THEN DictCell([k \in {"advanced_snippet", "rules"} |-> <<"new", k>>])
                          ELSE IF c = <<"new", "advanced_snippet">> THEN LeafCell("{}")
                          ELSE IF c = <<"new", "rules">> THEN LeafCell("[]")
                          ELSE heap[c]]]
        ELSE [ret |-> new,
              heap |-> [c \in Cells |-> IF c = new THEN DictCell(items) ELSE heap[c]]]

\* Filter.transform_filtering: a fresh {"advanced_snippet": {}, "rules": []}
\* when the dict is empty, else deepcopy(self); the object returned and the
\* memory after the call
TransformFiltering(heap, d) ==
    LET items == heap[d].items
        new == <<"new", "dict">>
    IN  IF DOMAIN items = {}
        THEN [ret |-> new,
              heap |-> [c \in Cells |->
                          IF c = new
                          THEN DictCell([k \in {"advanced_snippet", "rules"} |-> <<"new", k>>])
                          ELSE IF c = <<"new", "advanced_snippet">> THEN LeafCell("{}")
                          ELSE IF c = <<"new", "rules">> THEN LeafCell("[]")
                          ELSE heap[c]]]
        ELSE [ret |-> new,
              heap |-> [c \in Cells |->
                          IF c = new
                          THEN DictCell([k \in DOMAIN items |-> <<"new", k>>])
                          ELSE IF c[1] = "new" /\ c[2] \in DOMAIN items
                          THEN LeafCell(heap[items[c[2]]].val)
                          ELSE heap[c]]]

FilterIdle == fheap = Null /\ fres = Null /\ forig = Null /\ fLast = Null

\* Filter.__init__: a filter with any of the keys, each with some value
FilterInit ==
    /\ \E keys \in SUBSET FilterKeys :
        \E vals \in [FilterKeys -> UNION {LeafValues(k) : k \in FilterKeys}] :
            /\ \A k \in FilterKeys : vals[k] \in LeafValues(k)
            /\ fheap = [c \in Cells |->
                          IF c = Self THEN DictCell([k \in keys |-> <<"self", k>>])
                          ELSE IF c[1] = "self" /\ c[2] \in keys THEN LeafCell(vals[c[2]])
                          ELSE FreeCell]
    /\ fres = Null
    /\ forig = DeepValue(fheap, Self)
    /\ fLast = "init"

\* filtering = filter.transform_filtering()
FilterTransform ==
    /\ fres = Null
    /\ LET out == TransformFiltering(fheap, Self) IN
        /\ fheap' = out.heap
        /\ fres' = out.ret
    /\ fLast' = "transform"
    /\ UNCHANGED forig
    /\ UNCHANGED notFilter

\* the caller changes, in place, the value the result holds under key k
FilterMutateValue(k) ==
    /\ fres # Null
    /\ k \in DOMAIN fheap[fres].items
    /\ fheap[fheap[fres].items[k]] # LeafCell(Mutated)
    /\ fheap' = [fheap EXCEPT ![fheap[fres].items[k]] = LeafCell(Mutated)]
    /\ fLast' = "mutate"
    /\ UNCHANGED <<fres, forig>>
    /\ UNCHANGED notFilter

\* the caller stores a new value under key k of the result: result[k] = ...
FilterSetKey(k) ==
    /\ fres # Null
    /\ fheap[<<"new", k>>] # LeafCell(Mutated)
    /\ fheap' = [fheap EXCEPT
                    ![fres] = DictCell([x \in DOMAIN fheap[fres].items \cup {k} |->
                                          IF x = k THEN <<"new", k>>
                                          ELSE fheap[fres].items[x]]),
                    ![<<"new", k>>] = LeafCell(Mutated)]
    /\ fLast' = "mutate"
    /\ UNCHANGED <<fres, forig>>
    /\ UNCHANGED notFilter

FilterNext ==
    \/ FilterTransform
    \/ \E k \in FilterKeys : FilterMutateValue(k)
    \/ \E k \in FilterKeys : FilterSetKey(k)

-----------------------------------------------------------------------------
(* A job created from the live connector: the connector snapshot *)

PIPELINE_DEFAULT ==
    [name |-> "ent-search-generic-ingestion", extract_binary_content |-> "true",
     reduce_whitespace |-> "true", run_ml_inference |-> "true"]

\* Pipeline(data).data: the defaults, overridden by the data given
Pipeline(data) == IF data = Null THEN PIPELINE_DEFAULT ELSE data @@ PIPELINE_DEFAULT

\* transform_filtering on a filter as GetFilter returns it: the empty Filter
\* becomes the two-key mapping, any other filter is copied
TransformedFilter(f) ==
    IF f = EmptyFilter
    THEN [advanced_snippet |-> "none", rules |-> "none"]
    ELSE f

\* SyncJobIndex.create: the connector sub-document of the job definition
SnapshotOf(connector) ==
    [id |-> connector.id,
     filtering |-> TransformedFilter(GetFilter(connector.filtering, "active", DEFAULT_DOMAIN)),
     index_name |-> connector.index_name,
     language |-> connector.language,
     pipeline |-> Pipeline(connector.pipeline),
     service_type |-> connector.service_type,
     configuration |-> connector.configuration]

\* the job as the orchestrator hands it to sync_done
JobArgOf(job) ==
    [present |-> TRUE, status |-> job.status, error |-> job.error,
     indexed_document_count |-> 0, deleted_document_count |-> 0]

\* the job document before create: no document, no snapshot
NoSnapJob == [connector |-> [id |-> Null]] @@ AbsentJob

\* the record of an operation on the job, before its outcome is filled in
JobOp(name) ==
    [op |-> name, result |-> [state |-> Null, errors |-> Null],
     raised |-> Null, message |-> Null]

\* the verdicts a validator may return on the snapshot's filter
JobValidationResults ==
    ValidationResults \cup {[state |-> "edited", errors |-> "none"]}

\* a validate_filtering that raises on the verdict invalid only
JobValidateFiltering_InvalidOnly(result) ==
    IF result.state = "invalid"
    THEN [JobOp("validate_filtering") EXCEPT
            !.result = result,
            !.raised = "invalid_filtering",
            !.message = <<result.state, result.errors>>]
    ELSE [JobOp("validate_filtering") EXCEPT !.result = result]

\* SyncJob.validate_filtering: InvalidFilteringError, with the state and the
\* errors in its message, unless the verdict is valid
JobValidateFiltering(result) ==
    IF result.state # "valid"
    THEN [JobOp("validate_filtering") EXCEPT
            !.result = result,
            !.raised = "invalid_filtering",
            !.message = <<result.state, result.errors>>]
    ELSE [JobOp("validate_filtering") EXCEPT !.result = result]

SnapIdle == sjob = NoSnapJob /\ sLast = JobOp("none")

\* connectors with and without a configuration, no job yet
SnapInit ==
    /\ cdoc \in StartDocs({"jira"}, {"empty", "filled"}, {"true"}, {MaxPeriod})
    /\ cwrap = Wrapper(cdoc)
    /\ cLast = Op("load")
    /\ sjob = NoSnapJob
    /\ sLast = JobOp("none")

\* SyncJobIndex.create(connector) with the loaded connector
SnapCreate ==
    /\ sjob.status = "absent"
    /\ sjob' = [connector |-> SnapshotOf(cwrap)]
                @@ JobDef(cwrap.id, Truthy(Get(cwrap.sync_now, "false")))
    /\ sLast' = JobOp("create")
    /\ UNCHANGED connVars
    /\ UNCHANGED notSnap

\* SyncJob.claim() by worker w on the pending or suspended job
SnapClaim(w) ==
    /\ sjob.status \in {"pending", "suspended"}
    /\ sjob' = Update(sjob, ClaimDoc(w))
    /\ sLast' = JobOp("claim")
    /\ UNCHANGED connVars
    /\ UNCHANGED notSnap

\* SyncJob.done, fail, cancel or suspend on the job in progress
SnapTerminate(status, error) ==
    /\ sjob.status = "in_progress"
    /\ sjob' = Update(sjob, TerminateDoc(status, error))
    /\ sLast' = JobOp("terminate")
    /\ UNCHANGED connVars
    /\ UNCHANGED notSnap

\* SyncJob.validate_filtering(validator) during the sync; result is the
\* validator's verdict on the snapshot's filter
SnapValidateFiltering(result) ==
    /\ sjob.status = "in_progress"
    /\ sLast' = JobValidateFiltering(result)
    /\ UNCHANGED sjob
    /\ UNCHANGED connVars
    /\ UNCHANGED notSnap

\* Connector.sync_done(job) with the job, or with None when there is none
SnapSyncDone ==
    SyncDone(IF sjob.status = "absent" THEN NoJobArg ELSE JobArgOf(sjob))

SnapNext ==
    \/ SnapCreate
    \/ \E w \in Workers : SnapClaim(w)
    \/ \E result \in JobValidationResults : SnapValidateFiltering(result)
    \/ SnapTerminate("completed", Null)
    \/ SnapTerminate("error", "adapter error")
    \/ SnapTerminate("canceled", Null)
    \/ SnapTerminate("suspended", Null)
    \/ ConnLoad
    \/ SnapSyncDone
    \/ \E config \in PrepareConfigs, k \in BOOLEAN, u \in BOOLEAN : Prepare(config, k, u)
    \/ \E result \in ValidationResults : ValidateFiltering(result)

-----------------------------------------------------------------------------
(* The orchestrator's tick on one connector: sync_now and the job's trigger *)

MaxRequests == 2

\* the length of a tick, in seconds: a sync is due when next_sync() is no
\* later than the next tick
Idling == 1

Due(ret) == ret # SYNC_DISABLED /\ ret <= Idling

\* the ids of the jobs in the sync-jobs index
StoredJobs == {j \in JobIds : jobs[j].status # "absent"}

\* the state of the orchestrator between two steps of a handling
OrchAt(pc) == [orch EXCEPT !.pc = pc]

\* connectors with and without a sync_now request and a schedule
OrchInit ==
    /\ cdoc \in StartDocs({"jira"}, {"filled"}, {"true", "false"}, {MaxPeriod})
    /\ cwrap = Wrapper(cdoc)
    /\ cLast = Op("load")
    /\ orch = [pc |-> "idle", before |-> {}, job |-> NoJob,
               requests |-> IF cdoc.sync_now = "true" THEN 1 ELSE 0]

\* time passes between two ticks
OrchTick ==
    /\ orch.pc = "idle"
    /\ now < 1 + MaxConnTicks
    /\ now' = now + 1
    /\ UNCHANGED <<jobs, lastWrite, connVars, orch>>
    /\ UNCHANGED notOrch

\* a user asks for a sync now
UserSyncNow ==
    /\ cdoc.sync_now # "true"
    /\ orch.requests < MaxRequests
    /\ cdoc' = Update(cdoc, [sync_now |-> "true"])
    /\ orch' = [orch EXCEPT !.requests = @ + 1]
    /\ UNCHANGED <<now, jobs, lastWrite, cwrap, cLast>>
    /\ UNCHANGED notOrch

\* the tick loads the connector
OrchLoad ==
    /\ orch.pc = "idle"
    /\ cwrap' = Wrapper(cdoc)
    /\ cLast' = Op("load")
    /\ orch' = [orch EXCEPT !.pc = "loaded", !.before = StoredJobs, !.job = NoJob]
    /\ UNCHANGED <<now, jobs, lastWrite, cdoc>>
    /\ UNCHANGED notOrch

\* the tick consults next_sync() and skips a connector that is not due
OrchNextSync ==
    /\ orch.pc = "loaded"
    /\ cLast' = [Op("next_sync") EXCEPT !.ret = NextSync(cwrap)]
    /\ orch' = OrchAt(IF Due(NextSync(cwrap)) THEN "due" ELSE "idle")
    /\ UNCHANGED <<now, jobs, lastWrite, cdoc, cwrap>>
    /\ UNCHANGED notOrch

\* SyncJobIndex.create(connector) with the loaded connector
OrchCreate ==
    /\ orch.pc = "due"
    /\ \E j \in JobIds :
        /\ jobs[j].status = "absent"
        /\ \A i \in JobIds : i < j => jobs[i].status # "absent"
        /\ jobs' = [jobs EXCEPT ![j] =
                        JobDef(cwrap.id, Truthy(Get(cwrap.sync_now, "false")))]
        /\ lastWrite' = [job |-> j, by |-> Null, role |-> "creator"]
        /\ orch' = [orch EXCEPT !.pc = "created", !.job = j]
    /\ UNCHANGED <<now, connVars>>
    /\ UNCHANGED notOrch

\* Connector.reset_sync_now_flag()
OrchReset ==
    /\ orch.pc = "created"
    /\ cdoc' = Update(cdoc, ResetSyncNowDoc)
    /\ cLast' = Op("reset_sync_now_flag")
    /\ orch' = OrchAt("reset")
    /\ UNCHANGED <<now, jobs, lastWrite, cwrap>>
    /\ UNCHANGED notOrch

\* Connector.sync_starts()
OrchSyncStarts ==
    /\ orch.pc = "reset"
    /\ cdoc' = Update(cdoc, SyncStartsDoc)
    /\ cLast' = Op("sync_starts")
    /\ orch' = OrchAt("started")
    /\ UNCHANGED <<now, jobs, lastWrite, cwrap>>
    /\ UNCHANGED notOrch

\* the sync runs to its end: claim, done, then sync_done(job)
OrchRun ==
    /\ orch.pc = "started"
    /\ LET job == Update(Update(jobs[orch.job], ClaimDoc("w1")),
                         TerminateDoc("completed", Null))
       IN  /\ jobs' = [jobs EXCEPT ![orch.job] = job]
           /\ cdoc' = Update(cdoc, SyncDoneDoc(JobArgOf(job)))
           /\ cLast' = [Op("sync_done") EXCEPT !.job = JobArgOf(job)]
    /\ lastWrite' = [job |-> orch.job, by |-> "w1", role |-> "owner"]
    /\ orch' = OrchAt("idle")
    /\ UNCHANGED <<now, cwrap>>
    /\ UNCHANGED notOrch

OrchNext ==
    \/ OrchTick
    \/ UserSyncNow
    \/ OrchLoad
    \/ OrchNextSync
    \/ OrchCreate
    \/ OrchReset
    \/ OrchSyncStarts
    \/ OrchRun

-----------------------------------------------------------------------------
(* JiraDataSource.get_docs: producers, the bounded queue and the consumer *)

NumProjects == 1
NumIssues == 1
MaxAttachments == 1
\* the queue's byte budget and the pool's capacity, scaled down
QueueCap == 3
MaxConcurrency == 1

Issues == 1..NumIssues

\* the "FINISHED" sentinel; `from` records the producer that enqueued it (the
\* code's literal carries no such mark, and nothing below reads it but the claims)
FINISHED(from) == [kind |-> "FINISHED", from |-> from, n |-> 0]

\* a (document, fetcher) item of producer `from`
Item(from, n) == [kind |-> "doc", from |-> from, n |-> n]

\* the memory size MemQueue accounts for an item
ItemSize(item) == IF item.kind = "FINISHED" THEN 1 ELSE 2

RECURSIVE QueueSize(_)
QueueSize(q) == IF q = <<>> THEN 0 ELSE ItemSize(Head(q)) + QueueSize(Tail(q))

\* a put that bounds the number of items instead of their size
QueueFits_CountsItems(item) == Len(jqueue) < QueueCap

\* MemQueue.put admits an item when it fits into the budget
QueueFits(item) == QueueSize(jqueue) + ItemSize(item) <= QueueCap

\* ConcurrentTasks.put schedules a task when a slot is free
SlotFree == Cardinality(jfetchers) < MaxConcurrency

\* the name of the _grab_content task of issue i
Grab(i) == "grab" \o ToString(i)

JiraIdle ==
    /\ jattach = <<>>
    /\ jqueue = <<>>
    /\ jtasks = 0
    /\ jfetchers = {}
    /\ ppc = "idle" /\ pnext = 0
    /\ dpc = "idle" /\ dnext = 0
    /\ gpc = <<>> /\ gnext = <<>>
    /\ cpc = "idle"
    /\ jyielded = <<>>
    /\ jfinished = <<>>

\* JiraDataSource.__init__, and a Jira server with some issues
JiraInit ==
    /\ jattach \in [Issues -> 0..MaxAttachments]
    /\ jqueue = <<>>
    /\ jtasks = 0
    /\ jfetchers = {}
    /\ ppc = "idle" /\ pnext = 1
    /\ dpc = "idle" /\ dnext = 1
    /\ gpc = [i \in Issues |-> "idle"]
    /\ gnext = [i \in Issues |-> 1]
    /\ cpc = "start"
    /\ jyielded = <<>>
    /\ jfinished = <<>>

\* a Jira server whose issues hold no attachment or several
JiraItemsInit ==
    /\ jattach \in [Issues -> {0, MaxAttachments + 1}]
    /\ jqueue = <<>>
    /\ jtasks = 0
    /\ jfetchers = {}
    /\ ppc = "idle" /\ pnext = 1
    /\ dpc = "idle" /\ dnext = 1
    /\ gpc = [i \in Issues |-> "idle"]
    /\ gnext = [i \in Issues |-> 1]
    /\ cpc = "start"
    /\ jyielded = <<>>
    /\ jfinished = <<>>

\* get_docs up to its consumer loop: both producer tasks are created and counted
GetDocsStart ==
    /\ cpc = "start"
    /\ ppc' = "fetch"
    /\ dpc' = "fetch"
    /\ jtasks' = jtasks + 2
    /\ cpc' = "loop"
    /\ UNCHANGED <<jattach, jqueue, jfetchers, pnext, dnext, gpc, gnext, jyielded, jfinished>>
    /\ UNCHANGED notJira

\* _project_task: _get_projects calls the API; ok is whether the calls succeed
ProjectFetch(ok) ==
    /\ ppc = "fetch"
    /\ ppc' = IF ok THEN "put" ELSE "raised"
    /\ UNCHANGED <<jattach, jqueue, jtasks, jfetchers, pnext, dpc, dnext, gpc, gnext,
                   cpc, jyielded, jfinished>>
    /\ UNCHANGED notJira

\* _project_task: queue.put((project_data, None))
ProjectPut ==
    /\ ppc = "put"
    /\ pnext <= NumProjects
    /\ QueueFits(Item("project", pnext))
    /\ jqueue' = Append(jqueue, Item("project", pnext))
    /\ pnext' = pnext + 1
    /\ UNCHANGED <<jattach, jtasks, jfetchers, ppc, dpc, dnext, gpc, gnext, cpc,
                   jyielded, jfinished>>
    /\ UNCHANGED notJira

\* _project_task: queue.put("FINISHED")
ProjectFinish ==
    /\ ppc = "put"
    /\ pnext > NumProjects
    /\ QueueFits(FINISHED("project"))
    /\ jqueue' = Append(jqueue, FINISHED("project"))
    /\ ppc' = "done"
    /\ UNCHANGED <<jattach, jtasks, jfetchers, pnext, dpc, dnext, gpc, gnext, cpc,
                   jyielded, jfinished>>
    /\ UNCHANGED notJira

\* _document_task: _get_issues calls the API for the next issue; ok is whether
\* the call succeeds
DocFetch(ok) ==
    /\ dpc = "fetch"
    /\ dnext <= NumIssues
    /\ dpc' = IF ok THEN "put" ELSE "raised"
    /\ UNCHANGED <<jattach, jqueue, jtasks, jfetchers, ppc, pnext, dnext, gpc, gnext,
                   cpc, jyielded, jfinished>>
    /\ UNCHANGED notJira

\* _document_task: queue.put((document, None))
DocPut ==
    /\ dpc = "put"
    /\ QueueFits(Item("document", dnext))
    /\ jqueue' = Append(jqueue, Item("document", dnext))
    /\ IF jattach[dnext] > 0
       THEN dpc' = "spawn" /\ dnext' = dnext
       ELSE dpc' = "fetch" /\ dnext' = dnext + 1
    /\ UNCHANGED <<jattach, jtasks, jfetchers, ppc, pnext, gpc, gnext, cpc, jyielded,
                   jfinished>>
    /\ UNCHANGED notJira

\* _document_task that schedules the attachment producer without counting it
DocSpawn_NoCount ==
    /\ dpc = "spawn"
    /\ SlotFree
    /\ jfetchers' = jfetchers \cup {dnext}
    /\ gpc' = [gpc EXCEPT ![dnext] = "put"]
    /\ dpc' = "fetch"
    /\ dnext' = dnext + 1
    /\ UNCHANGED <<jattach, jqueue, jtasks, ppc, pnext, gnext, cpc, jyielded, jfinished>>
    /\ UNCHANGED notJira

\* _document_task: fetchers.put(partial(_grab_content, ...)) followed by
\* self.tasks += 1; nothing else runs between the scheduling and the increment
DocSpawn ==
    /\ dpc = "spawn"
    /\ SlotFree
    /\ jfetchers' = jfetchers \cup {dnext}
    /\ gpc' = [gpc EXCEPT ![dnext] = "put"]
    /\ jtasks' = jtasks + 1
    /\ dpc' = "fetch"
    /\ dnext' = dnext + 1
    /\ UNCHANGED <<jattach, jqueue, ppc, pnext, gnext, cpc, jyielded, jfinished>>
    /\ UNCHANGED notJira

\* _document_task: queue.put("FINISHED")
DocFinish ==
    /\ dpc = "fetch"
    /\ dnext > NumIssues
    /\ QueueFits(FINISHED("document"))
    /\ jqueue' = Append(jqueue, FINISHED("document"))
    /\ dpc' = "done"
    /\ UNCHANGED <<jattach, jtasks, jfetchers, ppc, pnext, dnext, gpc, gnext, cpc,
                   jyielded, jfinished>>
    /\ UNCHANGED notJira

\* _grab_content of issue i: queue.put((content, partial(get_content, ...)));
\* ok is whether _get_attachments can build the document from the attachment
GrabPut(i, ok) ==
    /\ gpc[i] = "put"
    /\ gnext[i] <= jattach[i]
    /\ IF ok
       THEN /\ QueueFits(Item(Grab(i), gnext[i]))
            /\ jqueue' = Append(jqueue, Item(Grab(i), gnext[i]))
            /\ gnext' = [gnext EXCEPT ![i] = @ + 1]
            /\ UNCHANGED <<gpc, jfetchers>>
       ELSE /\ gpc' = [gpc EXCEPT ![i] = "raised"]
            /\ jfetchers' = jfetchers \ {i}
            /\ UNCHANGED <<jqueue, gnext>>
    /\ UNCHANGED <<jattach, jtasks, ppc, pnext, dpc, dnext, cpc, jyielded, jfinished>>
    /\ UNCHANGED notJira

\* _grab_content of issue i: queue.put("FINISHED"), which ends the task
GrabFinish(i) ==
    /\ gpc[i] = "put"
    /\ gnext[i] > jattach[i]
    /\ QueueFits(FINISHED(Grab(i)))
    /\ jqueue' = Append(jqueue, FINISHED(Grab(i)))
    /\ gpc' = [gpc EXCEPT ![i] = "done"]
    /\ jfetchers' = jfetchers \ {i}
    /\ UNCHANGED <<jattach, jtasks, ppc, pnext, dpc, dnext, gnext, cpc, jyielded,
                   jfinished>>
    /\ UNCHANGED notJira

\* a consumer that takes the item enqueued last
ConsumerGet_TakesLast ==
    /\ cpc = "loop"
    /\ jtasks > 0
    /\ jqueue # <<>>
    /\ jqueue' = SubSeq(jqueue, 1, Len(jqueue) - 1)
    /\ IF jqueue[Len(jqueue)].kind = "FINISHED"
       THEN /\ jtasks' = jtasks - 1
            /\ jfinished' = Append(jfinished, jqueue[Len(jqueue)])
            /\ UNCHANGED jyielded
       ELSE /\ jyielded' = Append(jyielded, jqueue[Len(jqueue)])
            /\ UNCHANGED <<jtasks, jfinished>>
    /\ UNCHANGED <<jattach, jfetchers, ppc, pnext, dpc, dnext, gpc, gnext, cpc>>
    /\ UNCHANGED notJira

\* get_docs: one turn of `while self.tasks > 0`: queue.get(), then either the
\* counter is decremented or the item is yielded
ConsumerGet ==
    /\ cpc = "loop"
    /\ jtasks > 0
    /\ jqueue # <<>>
    /\ jqueue' = Tail(jqueue)
    /\ IF Head(jqueue).kind = "FINISHED"
       THEN /\ jtasks' = jtasks - 1
            /\ jfinished' = Append(jfinished, Head(jqueue))
            /\ UNCHANGED jyielded
       ELSE /\ jyielded' = Append(jyielded, Head(jqueue))
            /\ UNCHANGED <<jtasks, jfinished>>
    /\ UNCHANGED <<jattach, jfetchers, ppc, pnext, dpc, dnext, gpc, gnext, cpc>>
    /\ UNCHANGED notJira

\* get_docs: the loop condition fails
ConsumerExit ==
    /\ cpc = "loop"
    /\ ~(jtasks > 0)
    /\ cpc' = "join"
    /\ UNCHANGED <<jattach, jqueue, jtasks, jfetchers, ppc, pnext, dpc, dnext, gpc,
                   gnext, jyielded, jfinished>>
    /\ UNCHANGED notJira

\* get_docs: fetchers.join() returns once no scheduled task is left
ConsumerJoin ==
    /\ cpc = "join"
    /\ jfetchers = {}
    /\ cpc' = IF \E i \in Issues : gpc[i] = "raised" THEN "raised" ELSE "gather"
    /\ UNCHANGED <<jattach, jqueue, jtasks, jfetchers, ppc, pnext, dpc, dnext, gpc,
                   gnext, jyielded, jfinished>>
    /\ UNCHANGED notJira

\* get_docs: asyncio.gather(project_task, document_task) raises a task's
\* exception, and returns once both tasks are over
ConsumerGather ==
    /\ cpc = "gather"
    /\ \/ "raised" \in {ppc, dpc}
       \/ ppc = "done" /\ dpc = "done"
    /\ cpc' = IF "raised" \in {ppc, dpc} THEN "raised" ELSE "done"
    /\ UNCHANGED <<jattach, jqueue, jtasks, jfetchers, ppc, pnext, dpc, dnext, gpc,
                   gnext, jyielded, jfinished>>
    /\ UNCHANGED notJira

JiraNext ==
    \/ GetDocsStart
    \/ \E ok \in BOOLEAN : ProjectFetch(ok)
    \/ ProjectPut
    \/ ProjectFinish
    \/ \E ok \in BOOLEAN : DocFetch(ok)
    \/ DocPut
    \/ DocSpawn
    \/ DocFinish
    \/ \E i \in Issues, ok \in BOOLEAN : GrabPut(i, ok)
    \/ \E i \in Issues : GrabFinish(i)
    \/ ConsumerGet
    \/ ConsumerExit
    \/ ConsumerJoin
    \/ ConsumerGather

\* a producer coroutine has raised
JiraRaised ==
    \/ "raised" \in {ppc, dpc}
    \/ \E i \in DOMAIN gpc : gpc[i] = "raised"

-----------------------------------------------------------------------------
(* ConcurrentTasks, as get_docs uses it: put for each task, then join *)

PoolTasks == 4
PoolSlots == 2

Tasks == 1..PoolTasks

\* the tasks of the pool that were scheduled and are not over
Running == {i \in DOMAIN gpc : gpc[i] = "run"}

\* a put that never waits
PoolSlotFree_Always == TRUE

\* ConcurrentTasks.put schedules the task once a slot is free
PoolSlotFree == Cardinality(jfetchers) < PoolSlots

\* ConcurrentTasks(max_concurrency) without a task, and a caller about to
\* submit
PoolInit ==
    /\ jattach = <<>>
    /\ jqueue = <<>>
    /\ jtasks = 0
    /\ jfetchers = {}
    /\ ppc = "idle" /\ pnext = 0
    /\ dpc = "spawn" /\ dnext = 1
    /\ gpc = [i \in Tasks |-> "idle"] /\ gnext = <<>>
    /\ cpc = "idle"
    /\ jyielded = <<>>
    /\ jfinished = <<>>

\* fetchers.put(task): waits for a slot, then schedules the task
PoolPut ==
    /\ dpc = "spawn"
    /\ dnext <= PoolTasks
    /\ PoolSlotFree
    /\ jfetchers' = jfetchers \cup {dnext}
    /\ gpc' = [gpc EXCEPT ![dnext] = "run"]
    /\ dnext' = dnext + 1
    /\ UNCHANGED <<jattach, jqueue, jtasks, ppc, pnext, dpc, gnext, cpc, jyielded,
                   jfinished>>
    /\ UNCHANGED notJira

\* task i is over: it returned (ok) or raised, and its slot is free again
PoolTaskOver(i, ok) ==
    /\ gpc[i] = "run"
    /\ gpc' = [gpc EXCEPT ![i] = IF ok THEN "done" ELSE "raised"]
    /\ jfetchers' = jfetchers \ {i}
    /\ UNCHANGED <<jattach, jqueue, jtasks, ppc, pnext, dpc, dnext, gnext, cpc,
                   jyielded, jfinished>>
    /\ UNCHANGED notJira

\* the caller has no further task to submit and calls fetchers.join()
PoolCallJoin ==
    /\ dpc = "spawn"
    /\ dpc' = "join"
    /\ UNCHANGED <<jattach, jqueue, jtasks, jfetchers, ppc, pnext, dnext, gpc, gnext,
                   cpc, jyielded, jfinished>>
    /\ UNCHANGED notJira

\* fetchers.join() returns once no scheduled task is left
PoolJoin ==
    /\ dpc = "join"
    /\ jfetchers = {}
    /\ dpc' = "done"
    /\ UNCHANGED <<jattach, jqueue, jtasks, jfetchers, ppc, pnext, dnext, gpc, gnext,
                   cpc, jyielded, jfinished>>
    /\ UNCHANGED notJira

PoolNext ==
    \/ PoolPut
    \/ \E i \in Tasks, ok \in BOOLEAN : PoolTaskOver(i, ok)
    \/ PoolCallJoin
    \/ PoolJoin

-----------------------------------------------------------------------------
(* ConnectorIndex.supported_connectors *)

\* the connector ids and service types of the connectors index
IndexedIds == {"c1", "c2"}
ServiceTypes == {"jira", "mongo"}

\* a slot of the connectors index holding no document
AbsentConnector == [is_native |-> Null, service_type |-> Null, present |-> FALSE]

\* the documents a slot of the connectors index may hold
ConnectorDocs ==
    {AbsentConnector} \cup
    [is_native : {"true", "false", Null}, service_type : ServiceTypes,
     present : {TRUE}]

\* an argument of supported_connectors: None, or a list (the set of its
\* elements)
ListArgs(S) ==
    {[given |-> FALSE, list |-> {}]} \cup [given : {TRUE}, list : SUBSET S]

\* "if x is None: x = []"
OrEmpty(arg) == IF ~arg.given THEN {} ELSE arg.list

\* native_connectors_query on the document of id
NativeQuery(id, native_service_types) ==
    /\ cindex[id].is_native = "true"
    /\ cindex[id].service_type \in native_service_types

\* custom_connectors_query on the document of id
CustomQuery(id, connector_ids) ==
    /\ cindex[id].is_native = "false"
    /\ id \in connector_ids

\* a supported_connectors that sends the native query whenever there are
\* native service types
SupportedConnectors_NativeFirst(native_arg, ids_arg) ==
    LET native_service_types == OrEmpty(native_arg)
        connector_ids == OrEmpty(ids_arg)
        stored == {id \in IndexedIds : cindex[id].present}
    IN  IF native_service_types = {} /\ connector_ids = {}
        THEN [queried |-> FALSE, result |-> {}]
        ELSE IF native_service_types # {}
        THEN [queried |-> TRUE,
              result |-> {id \in stored : NativeQuery(id, native_service_types)}]
        ELSE [queried |-> TRUE,
              result |-> {id \in stored : CustomQuery(id, connector_ids)}]

\* ConnectorIndex.supported_connectors: whether it queries, and the ids of
\* the connectors it yields
SupportedConnectors(native_arg, ids_arg) ==
    LET native_service_types == OrEmpty(native_arg)
        connector_ids == OrEmpty(ids_arg)
        stored == {id \in IndexedIds : cindex[id].present}
    IN  IF native_service_types = {} /\ connector_ids = {}
        THEN [queried |-> FALSE, result |-> {}]
        ELSE IF native_service_types # {} /\ connector_ids # {}
        THEN [queried |-> TRUE,
              result |-> {id \in stored :
                            \/ NativeQuery(id, native_service_types)
                            \/ CustomQuery(id, connector_ids)}]
        ELSE IF native_service_types # {}
        THEN [queried |-> TRUE,
              result |-> {id \in stored : NativeQuery(id, native_service_types)}]
        ELSE [queried |-> TRUE,
              result |-> {id \in stored : CustomQuery(id, connector_ids)}]

SupportedInit ==
    /\ cindex \in [IndexedIds -> ConnectorDocs]
    /\ qLast = [op |-> Null]

\* a call of supported_connectors, iterated to its end
CallSupportedConnectors(native_arg, ids_arg) ==
    /\ qLast' = [op |-> "supported_connectors",
                 native_service_types |-> OrEmpty(native_arg),
                 connector_ids |-> OrEmpty(ids_arg)]
                @@ SupportedConnectors(native_arg, ids_arg)
    /\ UNCHANGED cindex
    /\ UNCHANGED notSupported

SupportedNext ==
    \E native_arg \in ListArgs(ServiceTypes), ids_arg \in ListArgs(IndexedIds) :
        CallSupportedConnectors(native_arg, ids_arg)

-----------------------------------------------------------------------------
(* The reapers' queries on the sync-jobs index *)

\* the connector ids found in jobs: one of a known connector, one of a
\* connector that is gone
JobConnectorIds == ConnectorIds \cup {"c9"}

\* the sets of connector ids the reapers are called with: none known, or
\* the connectors of the service
KnownSets == {{}, ConnectorIds}

JobStatuses ==
    {"pending", "in_progress", "canceling", "canceled", "suspended",
     "completed", "error"}

\* the clock when the reapers run: a job last seen at 2 is then
\* IDLE_JOBS_THRESHOLD seconds old
ReaperNow == 2 + IDLE_JOBS_THRESHOLD

\* the documents a slot of the sync-jobs index may hold
ReaperJobs ==
    {AbsentJob} \cup
    {Update(AbsentJob, [connector_id |-> c, trigger_method |-> "scheduled",
                        status |-> s, created_at |-> 1, last_seen |-> t]) :
        c \in JobConnectorIds, s \in JobStatuses, t \in 1..3}

\* an orphaned_jobs that spares the jobs being run
OrphanedJobs_SparesRunning(connector_ids) ==
    {j \in JobIds : /\ jobs[j].status \notin {"absent", "in_progress"}
                    /\ jobs[j].connector_id \notin connector_ids}

\* SyncJobIndex.orphaned_jobs: the ids the query matches
OrphanedJobs(connector_ids) ==
    {j \in JobIds : /\ jobs[j].status # "absent"
                    /\ jobs[j].connector_id \notin connector_ids}

\* SyncJobIndex.delete_jobs: the index after the delete_by_query
DeleteJobs(job_ids) ==
    [j \in JobIds |-> IF j \in job_ids THEN AbsentJob ELSE jobs[j]]

ReaperInit ==
    /\ now = ReaperNow
    /\ jobs \in [JobIds -> ReaperJobs]
    /\ held = [w \in Workers |-> NoJob]
    /\ driving = [w \in Workers |-> {}]
    /\ lastWrite = [job |-> NoJob, by |-> Null, role |-> Null]
    /\ qLast = [op |-> Null]

\* a call of idle_jobs, iterated to its end
CallIdleJobs(connector_ids) ==
    /\ qLast' = [op |-> "idle_jobs", connector_ids |-> connector_ids,
                 result |-> IdleJobs(connector_ids), before |-> jobs]
    /\ UNCHANGED <<now, jobs>>
    /\ UNCHANGED notReaper

\* a call of orphaned_jobs, iterated to its end
CallOrphanedJobs(connector_ids) ==
    /\ qLast' = [op |-> "orphaned_jobs", connector_ids |-> connector_ids,
                 result |-> OrphanedJobs(connector_ids), before |-> jobs]
    /\ UNCHANGED <<now, jobs>>
    /\ UNCHANGED notReaper

\* the orphan reaper: the jobs orphaned_jobs yields are handed to delete_jobs
OrphanReap(connector_ids) ==
    /\ OrphanedJobs(connector_ids) # {}
    /\ jobs' = DeleteJobs(OrphanedJobs(connector_ids))
    /\ qLast' = [op |-> "reap_orphans", connector_ids |-> connector_ids,
                 result |-> OrphanedJobs(connector_ids), before |-> jobs]
    /\ UNCHANGED now
    /\ UNCHANGED notReaper

ReaperNext ==
    \/ \E connector_ids \in KnownSets : CallIdleJobs(connector_ids)
    \/ \E connector_ids \in KnownSets : CallOrphanedJobs(connector_ids)
    \/ \E connector_ids \in KnownSets : OrphanReap(connector_ids)

-----------------------------------------------------------------------------
(* Features *)

\* JSON values: null, a boolean, a string, or a mapping (a function from the
\* keys it holds to their values)
JNull == [t |-> "null"]
JBool(b) == [t |-> "bool", b |-> b]
JStr == [t |-> "str"]
JDict(d) == [t |-> "dict", d |-> d]

\* the mappings over some of the keys K with values in V
Dicts(K, V) == {JDict(d) : d \in UNION {[S -> V] : S \in SUBSET K}}

\* dict.get(key): None when the key is absent
DictGet(dictionary, key) ==
    IF key \in DOMAIN dictionary.d THEN dictionary.d[key] ELSE JNull

\* dict.get(key, default)
DictGetDefault(dictionary, key, default) ==
    IF key \in DOMAIN dictionary.d THEN dictionary.d[key] ELSE default

\* Python's truth value of a JSON value, as any() takes it
Truth(v) ==
    \/ v.t = "bool" /\ v.b
    \/ v.t = "str"
    \/ v.t = "dict" /\ DOMAIN v.d # {}

\* Features._nested_feature_enabled: nested_get
RECURSIVE nested_get(_, _, _)
nested_get(dictionary, keys_, default_) ==
    IF dictionary.t = "null" THEN default_
    ELSE IF keys_ = <<>> THEN dictionary
    ELSE IF dictionary.t # "dict" THEN default_
    ELSE nested_get(DictGet(dictionary, Head(keys_)), Tail(keys_), default_)

FeatureNames ==
    {"basic_rules_new", "advanced_rules_new", "basic_rules_old",
     "advanced_rules_old", "incremental_sync"}

\* Features.feature_enabled
feature_enabled(feature) ==
    CASE feature = "basic_rules_new" ->
            nested_get(feat, <<"sync_rules", "basic", "enabled">>, JBool(FALSE))
      [] feature = "advanced_rules_new" ->
            nested_get(feat, <<"sync_rules", "advanced", "enabled">>, JBool(FALSE))
      [] feature = "basic_rules_old" ->
            DictGetDefault(feat, "filtering_rules", JBool(FALSE))
      [] feature = "advanced_rules_old" ->
            DictGetDefault(feat, "filtering_advanced_config", JBool(FALSE))
      [] OTHER -> JBool(FALSE)

\* a sync_rules_enabled that looks at the new keys only
sync_rules_enabled_NewOnly ==
    \/ Truth(feature_enabled("basic_rules_new"))
    \/ Truth(feature_enabled("advanced_rules_new"))

\* Features.sync_rules_enabled
sync_rules_enabled ==
    \/ Truth(feature_enabled("basic_rules_new"))
    \/ Truth(feature_enabled("basic_rules_old"))
    \/ Truth(feature_enabled("advanced_rules_new"))
    \/ Truth(feature_enabled("advanced_rules_old"))

\* the values of an "enabled" key and of a legacy key
Flags == {JNull, JBool(TRUE), JBool(FALSE)}

\* the values of sync_rules.basic and sync_rules.advanced
RuleGroups == {JNull, JStr} \cup Dicts({"enabled"}, Flags)

\* the values of sync_rules
SyncRules == {JNull, JStr} \cup Dicts({"basic", "advanced"}, RuleGroups)

\* the features documents: with and without each key, at every level
FeatureDocs ==
    {JDict(d) :
        d \in UNION {[S -> SyncRules \cup Flags] :
                        S \in SUBSET {"sync_rules", "filtering_rules",
                                      "filtering_advanced_config"}}}

\* Features.__init__(features): None becomes {}
FeaturesInit ==
    /\ \E features \in {JNull} \cup
            {f \in FeatureDocs :
                /\ "sync_rules" \in DOMAIN f.d => f.d["sync_rules"] \in SyncRules
                /\ \A k \in DOMAIN f.d \ {"sync_rules"} : f.d[k] \in Flags} :
         feat = IF features.t = "null" THEN JDict(<<>>) ELSE features
    /\ featLast = [op |-> Null]

CallFeatureEnabled(feature) ==
    /\ featLast' = [op |-> "feature_enabled", feature |-> feature,
                    ret |-> feature_enabled(feature)]
    /\ UNCHANGED feat
    /\ UNCHANGED notFeatures
    /\ UNCHANGED notAux

CallSyncRulesEnabled ==
    /\ featLast' = [op |-> "sync_rules_enabled", ret |-> sync_rules_enabled]
    /\ UNCHANGED feat
    /\ UNCHANGED notFeatures
    /\ UNCHANGED notAux

FeaturesNext ==
    \/ \E feature \in FeatureNames : CallFeatureEnabled(feature)
    \/ CallSyncRulesEnabled

-----------------------------------------------------------------------------
(* SyncJob._terminate with ingestion stats and connector metadata *)

\* an optional argument left at None, and one given as mapping d
NotGiven == [given |-> FALSE]
Given(d) == [given |-> TRUE, d |-> d]

\* arg if it is not None, else {}
OrEmptyDict(arg) == IF arg.given THEN arg.d ELSE <<>>

\* the mappings over some of the keys K, each key with the value v
Mappings(K, v) == {[k \in S |-> v] : S \in SUBSET K}

\* the ingestion stats a sync reports: counts
StatKeys == {"indexed_document_count", "deleted_document_count"}
IngestionStats == {NotGiven} \cup {Given(d) : d \in Mappings(StatKeys, 7)}

\* the metadata an adapter hands back
ConnectorMetadata == {NotGiven} \cup {Given(d) : d \in Mappings({"cursor"}, "c2")}

\* a _terminate that writes the metadata it is given, empty or not
TerminateWith_AlwaysMetadata(status, error, ingestion_stats, connector_metadata) ==
    [metadata |-> OrEmptyDict(connector_metadata)]
        @@ OrEmptyDict(ingestion_stats) @@ TerminateDoc(status, error)

\* SyncJob._terminate: the document sent to the index, with the ingestion
\* stats merged over it and the metadata under its own key
TerminateWith(status, error, ingestion_stats, connector_metadata) ==
    LET stats == OrEmptyDict(ingestion_stats)
        metadata == OrEmptyDict(connector_metadata)
        doc == stats @@ TerminateDoc(status, error)
    IN  IF DOMAIN metadata # {} THEN [metadata |-> metadata] @@ doc ELSE doc

\* the jobs a worker terminates: claimed earlier, with or without metadata
\* and counts of an earlier run
TerminateJobs ==
    [status : {"in_progress", "canceling"},
     error : {Null},
     last_seen : {1},
     completed_at : {NoTime},
     canceled_at : {NoTime},
     metadata : Mappings({"cursor"}, "c1"),
     indexed_document_count : {0, 3},
     deleted_document_count : {0}]

TerminateInit ==
    /\ tjob \in TerminateJobs
    /\ termLast = [op |-> Null]

\* SyncJob._terminate, reached through done, fail, cancel or suspend
CallTerminate(op, status, error, ingestion_stats, connector_metadata) ==
    LET doc == TerminateWith(status, error, ingestion_stats, connector_metadata)
    IN  /\ tjob' = Update(tjob, doc)
        /\ termLast' = [op |-> op, error |-> error, stats |-> ingestion_stats,
                        metadata |-> connector_metadata, doc |-> doc,
                        at |-> now, found |-> tjob]
        /\ UNCHANGED notTerminate
        /\ UNCHANGED notAux

\* SyncJob.done(ingestion_stats, connector_metadata)
CallDone(ingestion_stats, connector_metadata) ==
    CallTerminate("done", "completed", Null, ingestion_stats, connector_metadata)

\* SyncJob.fail(message, ingestion_stats, connector_metadata)
CallFail(ingestion_stats, connector_metadata) ==
    CallTerminate("fail", "error", "adapter error", ingestion_stats,
                  connector_metadata)

\* SyncJob.cancel(ingestion_stats, connector_metadata)
CallCancel(ingestion_stats, connector_metadata) ==
    CallTerminate("cancel", "canceled", Null, ingestion_stats, connector_metadata)

\* SyncJob.suspend(ingestion_stats, connector_metadata)
CallSuspend(ingestion_stats, connector_metadata) ==
    CallTerminate("suspend", "suspended", Null, ingestion_stats,
                  connector_metadata)

TerminateNext ==
    \E ingestion_stats \in IngestionStats, connector_metadata \in ConnectorMetadata :
        \/ CallDone(ingestion_stats, connector_metadata)
        \/ CallFail(ingestion_stats, connector_metadata)
        \/ CallCancel(ingestion_stats, connector_metadata)
        \/ CallSuspend(ingestion_stats, connector_metadata)

-----------------------------------------------------------------------------
(* JiraDataSource._api_call and the HTTP session *)

RETRY_INTERVAL == 2

\* the largest retry_count configured; get_default_configuration gives 3
MaxRetryCount == 3

\* the tasks that run _api_call at the same time (the projects producer and
\* the issues producer of get_docs)
ApiTasks == {"projects", "issues"}

\* what an attempt ends with: a response, aiohttp's ServerDisconnectedError,
\* or another exception
Outcomes == {"response", "ServerDisconnectedError", "ClientResponseError"}

NoSession == 0

RECURSIVE Pow(_, _)
Pow(b, e) == IF e = 0 THEN 1 ELSE b * Pow(b, e - 1)

\* the sessions created and not closed
Unclosed == sess.created \ sess.closed

\* get_docs: self.session is generated before the producers are scheduled
ApiInit ==
    /\ retry_count \in 0..MaxRetryCount
    /\ api = [i \in ApiTasks |->
                [pc |-> "get", retry |-> 0, attempts |-> 0, slept |-> <<>>,
                 yielded |-> 0, caught |-> Null, raised |-> Null]]
    /\ sess = [session |-> 1, created |-> {1}, closed |-> {}]

\* _generate_session: self.session = aiohttp.ClientSession(...)
GenerateSession(s) ==
    LET new == Cardinality(s.created) + 1
    IN  [s EXCEPT !.session = new, !.created = @ \cup {new}]

\* close up to its await: nothing to do without a session, else
\* session.close() is called
CloseCalled(s) ==
    IF s.session = NoSession THEN s ELSE [s EXCEPT !.closed = @ \cup {s.session}]

\* close after its await: self.session = None
CloseReturns(s) == [s EXCEPT !.session = NoSession]

\* a handler that stops after retry_count attempts
Handled_AttemptsCounted(a, exception) ==
    LET retry == a.retry + 1
    IN  IF retry >= retry_count
        THEN [a EXCEPT !.retry = retry, !.pc = "raised", !.raised = exception]
        ELSE [a EXCEPT !.retry = retry, !.pc = "sleep",
                       !.slept = Append(@, Pow(RETRY_INTERVAL, retry))]

\* the except clause after the session was dealt with: retry += 1, raise
\* when retry > self.retry_count, else sleep RETRY_INTERVAL ** retry
Handled(a, exception) ==
    LET retry == a.retry + 1
    IN  IF retry > retry_count
        THEN [a EXCEPT !.retry = retry, !.pc = "raised", !.raised = exception]
        ELSE [a EXCEPT !.retry = retry, !.pc = "sleep",
                       !.slept = Append(@, Pow(RETRY_INTERVAL, retry))]

\* an attempt: self.session.get(...) answers and the response is yielded,
\* or raises; ServerDisconnectedError goes on to close(), whose await
\* of session.close() may give way to the other task
ApiGet(i, outcome, suspends) ==
    /\ api[i].pc = "get"
    /\ LET a == [api[i] EXCEPT !.attempts = @ + 1] IN
        CASE outcome = "response" ->
                /\ api' = [api EXCEPT ![i] = [a EXCEPT !.yielded = @ + 1,
                                                       !.pc = "done"]]
                /\ UNCHANGED sess
          [] outcome = "ServerDisconnectedError" /\ sess.session # NoSession
                                                /\ suspends ->
                /\ sess' = CloseCalled(sess)
                /\ api' = [api EXCEPT ![i] = [a EXCEPT !.caught = outcome,
                                                       !.pc = "closing"]]
          [] outcome = "ServerDisconnectedError" ->
                /\ sess' = GenerateSession(CloseReturns(CloseCalled(sess)))
                /\ api' = [api EXCEPT ![i] = Handled([a EXCEPT !.caught = outcome],
                                                     outcome)]
          [] OTHER ->
                /\ api' = [api EXCEPT ![i] = Handled([a EXCEPT !.caught = outcome],
                                                     outcome)]
                /\ UNCHANGED sess
    /\ UNCHANGED retry_count
    /\ UNCHANGED notApi
    /\ UNCHANGED notAux

\* close() resumes after its await: self.session = None; then
\* _generate_session and the rest of the except clause
ApiClosed(i) ==
    /\ api[i].pc = "closing"
    /\ sess' = GenerateSession(CloseReturns(sess))
    /\ api' = [api EXCEPT ![i] = Handled(api[i], api[i].caught)]
    /\ UNCHANGED retry_count
    /\ UNCHANGED notApi
    /\ UNCHANGED notAux

\* the sleep is over: the loop goes round
ApiWake(i) ==
    /\ api[i].pc = "sleep"
    /\ api' = [api EXCEPT ![i].pc = "get"]
    /\ UNCHANGED <<retry_count, sess>>
    /\ UNCHANGED notApi
    /\ UNCHANGED notAux

\* the framework closes the adapter when its tasks are over
AdapterClose ==
    /\ \A i \in ApiTasks : api[i].pc \in {"done", "raised"}
    /\ sess.session # NoSession
    /\ sess' = CloseReturns(CloseCalled(sess))
    /\ UNCHANGED <<retry_count, api>>
    /\ UNCHANGED notApi
    /\ UNCHANGED notAux

ApiNext ==
    \/ \E i \in ApiTasks, outcome \in Outcomes, suspends \in BOOLEAN :
            ApiGet(i, outcome, suspends)
    \/ \E i \in ApiTasks : ApiClosed(i)
    \/ \E i \in ApiTasks : ApiWake(i)
    \/ AdapterClose

-----------------------------------------------------------------------------
(* JiraDataSource._paginated_api_call *)

\* FETCH_SIZE (100), scaled down
FetchSize == 2

\* the largest total the server reports
MaxTotal == 12

\* start_at = 0, should_paginate = True
PaginateInit ==
    \E total \in 0..MaxTotal :
        pg = [pc |-> "request", total |-> total, start_at |-> 0,
              requests |-> <<>>, yielded |-> 0]

\* _api_call(url_name, start_at=start_at, max_results=FETCH_SIZE)
PageRequest ==
    /\ pg.pc = "request"
    /\ pg' = [pg EXCEPT !.requests = Append(@, pg.start_at), !.pc = "response"]
    /\ UNCHANGED notPaginate
    /\ UNCHANGED notAux

\* response.json() is read and yielded
PageYield ==
    /\ pg.pc = "response"
    /\ pg' = [pg EXCEPT !.yielded = @ + 1, !.pc = "yielded"]
    /\ UNCHANGED notPaginate
    /\ UNCHANGED notAux

\* the test after the yield: stop, or start_at += FETCH_SIZE
PageAdvance ==
    /\ pg.pc = "yielded"
    /\ pg' = IF pg.start_at + FetchSize > pg.total \/ pg.total <= FetchSize
              THEN [pg EXCEPT !.pc = "done"]
              ELSE [pg EXCEPT !.start_at = @ + FetchSize, !.pc = "request"]
    /\ UNCHANGED notPaginate
    /\ UNCHANGED notAux

PaginateNext == PageRequest \/ PageYield \/ PageAdvance

-----------------------------------------------------------------------------
(* Specifications *)

ConnIdle == cdoc = Null /\ cwrap = Null /\ cLast = Null

FeaturesIdle == feat = [t |-> Null] /\ featLast = [op |-> Null]

TerminateIdle == tjob = [status |-> Null] /\ termLast = [op |-> Null]

ApiIdle == retry_count = 0 /\ api = <<>> /\ sess = [session |-> 0]

PaginateIdle == pg = [pc |-> Null]

AuxIdle == FeaturesIdle /\ TerminateIdle /\ ApiIdle /\ PaginateIdle

QueryIdle ==
    cindex = Null /\ qLast = [op |-> Null] /\ orch = [pc |-> Null] /\ AuxIdle

\* Spec: the sync-job lifecycle under two workers
Init == now = 1 /\ JobInit /\ HbInit /\ ConnIdle /\ JiraIdle /\ FilterIdle /\ SnapIdle /\ QueryIdle

Next == JobNext

Spec == Init /\ [][Next]_vars

\* SpecLifecycle: the sync-job lifecycle without the passing of time
SpecLifecycle == Init /\ [][LifecycleNext]_vars

\* SpecHeartbeat: heartbeats of one connector issued by two workers
SpecHeartbeat == Init /\ [][HbNext]_vars

\* SpecConnector: one connector document driven through its wrapper
InitConnector == now = 1 /\ JobInit /\ HbInit /\ ConnInit /\ JiraIdle /\ FilterIdle /\ SnapIdle /\ QueryIdle

SpecConnector == InitConnector /\ [][ConnNext]_vars

\* SpecNextSync: next_sync() over connectors of every sync_now and scheduling
InitNextSync == now = 1 /\ JobInit /\ HbInit /\ NextSyncInit /\ JiraIdle /\ FilterIdle /\ SnapIdle /\ QueryIdle

SpecNextSync == InitNextSync /\ [][NextSyncNext]_vars

\* SpecJira: one run of get_docs; the event loop runs every task that can run
InitJira == now = 1 /\ JobInit /\ HbInit /\ ConnIdle /\ JiraInit /\ FilterIdle /\ SnapIdle /\ QueryIdle

SpecJira == InitJira /\ [][JiraNext]_vars /\ WF_vars(JiraNext)

\* SpecJiraItems: get_docs under every schedule, over issues with more
\* attachments
InitJiraItems ==
    now = 1 /\ JobInit /\ HbInit /\ ConnIdle /\ JiraItemsInit /\ FilterIdle /\ SnapIdle /\ QueryIdle

SpecJiraItems == InitJiraItems /\ [][JiraNext]_vars

\* prepare with configs of either registered service type
PrepareTypesNext ==
    \/ ConnLoad
    \/ UserConfigure
    \/ ResetSyncNowFlag
    \/ SyncStarts
    \/ ConnError("boom")
    \/ \E config \in TypedConfigs, k \in BOOLEAN, u \in BOOLEAN : Prepare(config, k, u)

\* SpecPrepareTypes: prepare() where the connector's service type and the
\* config's may differ
InitPrepareTypes ==
    now = 1 /\ JobInit /\ HbInit /\ TypedConnInit /\ JiraIdle /\ FilterIdle /\ SnapIdle /\ QueryIdle

SpecPrepareTypes == InitPrepareTypes /\ [][PrepareTypesNext]_vars

\* SpecPool: a ConcurrentTasks pool given more tasks than it has slots
InitPool == now = 1 /\ JobInit /\ HbInit /\ ConnIdle /\ PoolInit /\ FilterIdle /\ SnapIdle /\ QueryIdle

SpecPool == InitPool /\ [][PoolNext]_vars

\* SpecPrepare: prepare() on connectors of every service type and configuration
SpecPrepare == InitConnector /\ [][PrepareNext]_vars

\* SpecSyncDone: sync_done(job) on jobs of every status, with and without counts
SpecSyncDone == InitConnector /\ [][SyncDoneNext]_vars

\* SpecFiltering: validate_filtering on connectors whose drafts users edit
InitFiltering ==
    now = 1 /\ JobInit /\ HbInit /\ FilteringInit /\ JiraIdle /\ FilterIdle /\ SnapIdle /\ QueryIdle

SpecFiltering == InitFiltering /\ [][FilteringNext]_vars

\* SpecFilter: one filter, transform_filtering and a caller that mutates the result
InitFilter == now = 1 /\ JobInit /\ HbInit /\ ConnIdle /\ JiraIdle /\ FilterInit /\ SnapIdle /\ QueryIdle

SpecFilter == InitFilter /\ [][FilterNext]_vars

\* SpecSyncNow: the ticks of one orchestrator on a connector whose user asks
\* for syncs
InitSyncNow ==
    /\ now = 1 /\ JobInit /\ HbInit /\ OrchInit /\ JiraIdle /\ FilterIdle /\ SnapIdle
    /\ cindex = Null /\ qLast = [op |-> Null] /\ AuxIdle

SpecSyncNow == InitSyncNow /\ [][OrchNext]_vars

\* SpecPaginate: _paginated_api_call over every small total
InitPaginate ==
    /\ now = 1 /\ JobInit /\ HbInit /\ ConnIdle /\ JiraIdle /\ FilterIdle /\ SnapIdle
    /\ cindex = Null /\ qLast = [op |-> Null] /\ orch = [pc |-> Null]
    /\ FeaturesIdle /\ TerminateIdle /\ ApiIdle
    /\ PaginateInit

SpecPaginate == InitPaginate /\ [][PaginateNext]_vars

\* SpecApiCall: two tasks in _api_call over one session
InitApiCall ==
    /\ now = 1 /\ JobInit /\ HbInit /\ ConnIdle /\ JiraIdle /\ FilterIdle /\ SnapIdle
    /\ cindex = Null /\ qLast = [op |-> Null] /\ orch = [pc |-> Null]
    /\ FeaturesIdle /\ TerminateIdle /\ PaginateIdle
    /\ ApiInit

SpecApiCall == InitApiCall /\ [][ApiNext]_vars

\* SpecTerminate: done, fail, cancel and suspend with their optional arguments
InitTerminate ==
    /\ now = 2 /\ JobInit /\ HbInit /\ ConnIdle /\ JiraIdle /\ FilterIdle /\ SnapIdle
    /\ cindex = Null /\ qLast = [op |-> Null] /\ orch = [pc |-> Null]
    /\ FeaturesIdle /\ ApiIdle /\ PaginateIdle
    /\ TerminateInit

SpecTerminate == InitTerminate /\ [][TerminateNext]_vars

\* SpecFeatures: the lookups of Features over every small features document
InitFeatures ==
    /\ now = 1 /\ JobInit /\ HbInit /\ ConnIdle /\ JiraIdle /\ FilterIdle /\ SnapIdle
    /\ cindex = Null /\ qLast = [op |-> Null] /\ orch = [pc |-> Null]
    /\ FeaturesInit
    /\ TerminateIdle /\ ApiIdle /\ PaginateIdle

SpecFeatures == InitFeatures /\ [][FeaturesNext]_vars

\* SpecSupported: supported_connectors over every small connectors index
InitSupported ==
    /\ now = 1 /\ JobInit /\ HbInit /\ ConnIdle /\ JiraIdle /\ FilterIdle /\ SnapIdle
    /\ SupportedInit /\ orch = [pc |-> Null] /\ AuxIdle

SpecSupported == InitSupported /\ [][SupportedNext]_vars

\* SpecReaper: the idle and orphan reapers over every small sync-jobs index
InitReaper ==
    /\ ReaperInit /\ HbInit /\ ConnIdle /\ JiraIdle /\ FilterIdle /\ SnapIdle
    /\ cindex = Null /\ orch = [pc |-> Null] /\ AuxIdle

SpecReaper == InitReaper /\ [][ReaperNext]_vars

\* SpecSnapshot: a job created from a connector whose document keeps changing
InitSnapshot ==
    now = 1 /\ JobInit /\ HbInit /\ SnapInit /\ JiraIdle /\ FilterIdle /\ QueryIdle

SpecSnapshot == InitSnapshot /\ [][SnapNext]_vars

-----------------------------------------------------------------------------
(* Claims about the sync-job lifecycle *)

\* C1: of the workers that call claim() on a pending or suspended job, at most
\* one ends up owning it and running the sync; no job is ever driven by two
\* workers at once.
C1_AtMostOneOwner ==
    \A j \in JobIds : Cardinality(Owners(j)) <= 1

\* C2: while a claimed job is not terminal and its owner is still driving it,
\* every write to the job's document is made by that owner: a step that
\* changes such a document is a write of one of its owners.
C2_OwnerIsSoleWriter ==
    [][\A j \in JobIds :
         (/\ Owners(j) # {}
          /\ ~terminated(jobs[j])
          /\ jobs'[j] # jobs[j])
         => (/\ lastWrite'.job = j
             /\ lastWrite'.role = "owner"
             /\ lastWrite'.by \in Owners(j))]_vars

\* C3: there are never two jobs of the same connector id that are both in
\* status in_progress.
C3_OneInProgressPerConnector ==
    \A j1, j2 \in JobIds :
        (/\ j1 # j2
         /\ jobs[j1].status = "in_progress"
         /\ jobs[j2].status = "in_progress")
        => jobs[j1].connector_id # jobs[j2].connector_id

\* C11: every terminal job (status completed, error or canceled) has
\* completed_at set, and SyncJob.terminated is true for exactly those three
\* of the job statuses.
C11_TerminalHasCompletedAt ==
    /\ \A j \in JobIds :
          jobs[j].status \in {"completed", "error", "canceled"}
          => jobs[j].completed_at # NoTime
    /\ \A s \in JobArgStatuses :
          terminated([status |-> s]) <=> s \in {"completed", "error", "canceled"}

\* a job was canceled by the worker driving it
C11_Witness ==
    \E j \in JobIds :
        /\ jobs[j].status = "canceled"
        /\ jobs[j].completed_at # NoTime
        /\ lastWrite = [job |-> j, by |-> jobs[j].worker_hostname, role |-> "owner"]

\* C12: a pending job has never been canceled; claim() on a pending job leaves
\* it in_progress with started_at, last_seen and worker_hostname set; and a
\* done() on the job as claim left it (in_progress, not canceled) leaves it
\* completed with a null error, completed_at set and canceled_at still unset.
C12_ClaimThenDone ==
    /\ [](\A j \in JobIds :
            jobs[j].status = "pending" => jobs[j].canceled_at = NoTime)
    /\ [][\A j \in JobIds :
            /\ (jobs[j].status = "pending" /\ jobs'[j] # jobs[j])
               => /\ jobs'[j].status = "in_progress"
                  /\ jobs'[j].started_at # NoTime
                  /\ jobs'[j].last_seen # NoTime
                  /\ jobs'[j].worker_hostname \in Workers
                  /\ jobs'[j].canceled_at = NoTime
            /\ (/\ jobs[j].status = "in_progress"
                /\ jobs[j].canceled_at = NoTime
                /\ jobs'[j].status = "completed")
               => /\ jobs'[j].error = Null
                  /\ jobs'[j].completed_at # NoTime
                  /\ jobs'[j].canceled_at = NoTime
                  /\ jobs'[j].worker_hostname \in Workers]_vars

\* a claimed job was completed by its worker and was never canceled
C12_Witness ==
    \E j \in JobIds :
        /\ jobs[j].status = "completed"
        /\ jobs[j].error = Null
        /\ jobs[j].started_at # NoTime
        /\ jobs[j].completed_at # NoTime
        /\ jobs[j].canceled_at = NoTime
        /\ jobs[j].worker_hostname \in Workers

\* C36: once a job is completed, errored or canceled, no claim, done, fail,
\* cancel or suspend of any worker changes its status, error, completed_at
\* or canceled_at.
C36_TerminalAbsorbing ==
    [][\A j \in JobIds :
          terminated(jobs[j]) =>
              /\ jobs'[j].status = jobs[j].status
              /\ jobs'[j].error = jobs[j].error
              /\ jobs'[j].completed_at = jobs[j].completed_at
              /\ jobs'[j].canceled_at = jobs[j].canceled_at]_vars

-----------------------------------------------------------------------------
(* Claims about heartbeats *)

\* C4: across any interleaving of heartbeats, the stored last_seen of the
\* connector never decreases.
C4_LastSeenMonotone ==
    [][hbStored' >= hbStored]_vars

\* C23: a heartbeat(interval) sends its write exactly when the connector's
\* last_seen is null or more than interval seconds old, so that of two calls
\* within interval seconds of each other only the first writes.
C23_HeartbeatThrottle ==
    [][\A w \in Workers, i \in 0..MaxInterval :
         Heartbeat(w, i) =>
           (hbInFlight'[w] # NoTime <=>
              (hbStored = NoTime \/ now - hbStored > i))]_vars

-----------------------------------------------------------------------------
(* Claims about the Connector wrapper *)

\* C7: next_sync() returns 0 whenever sync_now is true, whatever the
\* scheduling is, and SYNC_DISABLED whenever sync_now is false (or absent) and
\* scheduling.enabled is false or absent.
C7_NextSync ==
    cLast.op = "next_sync" =>
        /\ cwrap.sync_now = "true" => cLast.ret = 0
        /\ (/\ cwrap.sync_now \in {"false", Null}
            /\ cwrap.scheduling.enabled \in {"false", Null})
           => cLast.ret = SYNC_DISABLED

\* next_sync() was called with sync_now set and scheduling disabled
C7_Witness ==
    /\ cLast.op = "next_sync"
    /\ cwrap.sync_now = "true"
    /\ cwrap.scheduling.enabled = "false"
    /\ cLast.ret = 0

\* C8: sync_done(null) leaves the connector with last_sync_status = error,
\* last_sync_error = "Couldn't find the job" and status = error.
C8_SyncDoneNull ==
    (cLast.op = "sync_done" /\ ~cLast.job.present) =>
        /\ cdoc.last_sync_status = "error"
        /\ cdoc.last_sync_error = "Couldn't find the job"
        /\ cdoc.status = "error"

\* sync_done(null) has just run
C8_Witness ==
    /\ cLast.op = "sync_done"
    /\ ~cLast.job.present
    /\ cdoc.last_synced = now
    /\ cdoc.last_sync_status = "error"

\* C9: sync_done(job) writes last_sync_error = "unknown error" for a job in
\* status error with a null error, the job's error unchanged when it is not
\* null, and null for a job that is not in status error and has a null error.
C9_SyncDoneError ==
    (cLast.op = "sync_done" /\ cLast.job.present) =>
        /\ (cLast.job.status = "error" /\ cLast.job.error = Null)
           => cdoc.last_sync_error = "unknown error"
        /\ cLast.job.error # Null
           => cdoc.last_sync_error = cLast.job.error
        /\ (cLast.job.status # "error" /\ cLast.job.error = Null)
           => cdoc.last_sync_error = Null

\* sync_done ran with an errored job that carries no error message
C9_Witness ==
    /\ cLast.op = "sync_done"
    /\ cLast.job.present
    /\ cLast.job.status = "error"
    /\ cLast.job.error = Null
    /\ cdoc.last_sync_error = "unknown error"

\* C10 as stated: in every reachable state, last_sync_status = error implies
\* status is error or connected.
C10_Original ==
    cdoc.last_sync_status = "error" => cdoc.status \in {"error", "connected"}

\* C10 as amended: in every reachable state, last_sync_status = error implies
\* status is error, connected or needs_configuration (the last after a
\* prepare that populated the configuration of a connector whose last sync
\* failed).
C10_LastSyncErrorStatus ==
    cdoc.last_sync_status = "error" =>
        cdoc.status \in {"error", "connected", "needs_configuration"}

\* prepare populated the configuration after a failed sync
C10_Witness ==
    /\ cdoc.last_sync_status = "error"
    /\ cdoc.status = "needs_configuration"
    /\ cLast.op = "prepare"

-----------------------------------------------------------------------------
(* Claims about Connector.validate_filtering *)

C17_ValidPromotesDraft ==
    (cLast.op = "validate_filtering" /\ cLast.outcome = "valid") =>
        /\ GetFilter(cdoc.filtering, "draft", DEFAULT_DOMAIN).validation.state = "valid"
        /\ GetFilter(cdoc.filtering, "active", DEFAULT_DOMAIN)
             = GetFilter(cdoc.filtering, "draft", DEFAULT_DOMAIN)

\* an edited draft of the default domain was validated and promoted
C17_Witness ==
    /\ cLast.op = "validate_filtering"
    /\ cLast.outcome = "valid"
    /\ GetFilter(cdoc.filtering, "active", DEFAULT_DOMAIN).rules = "r2"
    /\ GetFilter(cdoc.filtering, "active", DEFAULT_DOMAIN).validation.state = "valid"

\* C38: a validate_filtering that gets a verdict other than valid for an
\* edited draft of the default domain stores the verdict as that draft's
\* validation and leaves the stored active filter as it was; and every
\* validate_filtering leaves the stored rules and advanced snippet of the
\* drafts, and the stored bundles of the other domains, as they were.
C38_ValidateFilteringFrame ==
    [][\A result \in ValidationResults :
         ValidateFiltering(result) =>
           /\ DOMAIN cdoc'.filtering = DOMAIN cdoc.filtering
           /\ \A i \in DOMAIN cdoc.filtering :
                 /\ cdoc'.filtering[i].draft.rules = cdoc.filtering[i].draft.rules
                 /\ cdoc'.filtering[i].draft.advanced_snippet
                       = cdoc.filtering[i].draft.advanced_snippet
                 /\ cdoc.filtering[i].domain # DEFAULT_DOMAIN
                       => cdoc'.filtering[i] = cdoc.filtering[i]
           /\ (DraftIsEdited(cwrap.filtering) /\ result.state # "valid") =>
                 /\ GetFilter(cdoc'.filtering, "draft", DEFAULT_DOMAIN).validation
                       = result
                 /\ GetFilter(cdoc'.filtering, "active", DEFAULT_DOMAIN)
                       = GetFilter(cdoc.filtering, "active", DEFAULT_DOMAIN)]_vars

-----------------------------------------------------------------------------
(* Claims about the connector snapshot of a job *)

\* C13: once the job is created, no step changes its connector snapshot:
\* neither claim, done, fail, cancel or suspend on the job, nor prepare,
\* validate_filtering or sync_done on the live connector.
C13_SnapshotImmutable ==
    [][sjob.status # "absent"
         => (sjob'.status # "absent" /\ sjob'.connector = sjob.connector)]_vars

\* the job has finished, and the live connector's active filter is no longer
\* the one the job captured
C13_Witness ==
    /\ sjob.status = "completed"
    /\ sjob.connector.filtering = TransformedFilter(EmptyFilter)
    /\ GetFilter(cdoc.filtering, "active", DEFAULT_DOMAIN).validation.state = "valid"
    /\ GetFilter(cdoc.filtering, "active", DEFAULT_DOMAIN).rules = Filter0.rules
    /\ cLast.op = "sync_done"

\* C18: SyncJob.validate_filtering raises invalid_filtering, carrying the
\* verdict's state and errors, exactly when the validator's verdict on the
\* snapshot's filter is not valid; and raising or not, it leaves the job
\* document as it was.
C18_JobValidateFiltering ==
    /\ [](sLast.op = "validate_filtering" =>
            /\ sLast.raised = "invalid_filtering" <=> sLast.result.state # "valid"
            /\ sLast.raised = Null <=> sLast.result.state = "valid"
            /\ sLast.raised = "invalid_filtering"
               => sLast.message = <<sLast.result.state, sLast.result.errors>>)
    /\ [][(sLast'.op = "validate_filtering" /\ sLast' # sLast) => sjob' = sjob]_vars

\* the validator left the snapshot's filter in state edited and the job was
\* refused, still in progress
C18_Witness ==
    /\ sLast.op = "validate_filtering"
    /\ sLast.result.state = "edited"
    /\ sLast.raised = "invalid_filtering"
    /\ sjob.status = "in_progress"

-----------------------------------------------------------------------------
(* Claims about Filter.transform_filtering *)

\* C14: for every filter, the mapping transform_filtering returns contains
\* both keys advanced_snippet and rules.
C14_AlwaysShaped ==
    fLast = "transform" =>
        {"advanced_snippet", "rules"} \subseteq DOMAIN fheap[fres].items

\* C15: on the empty filter transform_filtering yields exactly
\* {advanced_snippet: {}, rules: []}; on a non-empty filter it yields another
\* object that equals the filter key for key; and whatever is done to the
\* result afterwards, the filter keeps the contents it was constructed with.
C15_TransformCopies ==
    /\ fLast = "transform" =>
          /\ fres # Self
          /\ DeepValue(fheap, fres) =
                IF DOMAIN forig = {}
                THEN [k \in {"advanced_snippet", "rules"} |->
                        IF k = "rules" THEN "[]" ELSE "{}"]
                ELSE forig
    /\ DeepValue(fheap, Self) = forig

\* the result of a non-empty filter had a value changed in place
C15_Witness ==
    /\ fLast = "mutate"
    /\ DOMAIN forig = FilterKeys
    /\ \E k \in FilterKeys : DeepValue(fheap, fres)[k] = Mutated
    /\ DeepValue(fheap, Self) = forig

-----------------------------------------------------------------------------
(* Claims about Connector.prepare *)

\* C19: a prepare aimed at this connector raises service_type_not_configured
\* when the connector has no service type and the config names none, and
\* service_type_not_supported when the configuration has to be populated and
\* the configured service type is not among the sources; and a prepare that
\* raises one of these or data_source_error leaves the stored document and
\* the wrapper as they were.
C19_PrepareFailures ==
    [][\A config \in PrepareConfigs, k \in BOOLEAN, u \in BOOLEAN :
         Prepare(config, k, u) =>
           /\ (/\ cwrap.id = config.connector_id
               /\ cwrap.service_type = Null
               /\ config.service_type = "")
              => cLast'.outcome = "service_type_not_configured"
           /\ (/\ cwrap.id = config.connector_id
               /\ ConfigIsEmpty(cwrap.configuration)
               /\ ~(cwrap.service_type = Null /\ config.service_type = "")
               /\ config.service_type \notin Sources)
              => cLast'.outcome = "service_type_not_supported"
           /\ cLast'.outcome \in {"service_type_not_configured",
                                  "service_type_not_supported",
                                  "data_source_error"}
              => (cdoc' = cdoc /\ cwrap' = cwrap)]_vars

\* a connector with a service type and an empty configuration was prepared
\* for a service type the sources do not know
C19_Witness ==
    /\ cLast.op = "prepare"
    /\ cLast.outcome = "service_type_not_supported"
    /\ cwrap.service_type = "jira"
    /\ cdoc.configuration = "empty"
    /\ cdoc.status = "created"

\* C20: a prepare whose config names another connector id, and a prepare on a
\* connector that has a service type and a non-empty configuration, writes
\* nothing, reloads nothing and raises nothing.
C20_PrepareNoop ==
    [][\A config \in PrepareConfigs, k \in BOOLEAN, u \in BOOLEAN :
         (/\ Prepare(config, k, u)
          /\ \/ cwrap.id # config.connector_id
             \/ (cwrap.service_type # Null /\ ~ConfigIsEmpty(cwrap.configuration)))
         => (/\ cdoc' = cdoc
             /\ cwrap' = cwrap
             /\ cLast'.outcome = "noop")]_vars

\* a prepare did nothing on a connector without service type whose wrapper is
\* behind the stored document
C20_Witness ==
    /\ cLast.op = "prepare"
    /\ cLast.outcome = "noop"
    /\ cwrap.service_type = Null
    /\ cwrap # Wrapper(cdoc)

\* C37: after a prepare that populated the configuration and sent its
\* update, the stored configuration is the default configuration of the
\* adapter of the stored service type, whether the connector had a service
\* type before or took the config's.
C37_DefaultsOfStoredType ==
    [][\A config \in TypedConfigs, k \in BOOLEAN, u \in BOOLEAN :
         (/\ Prepare(config, k, u)
          /\ cLast'.outcome = "updated"
          /\ ConfigIsEmpty(cwrap.configuration))
         => cdoc'.configuration = SimpleConfiguration(cdoc'.service_type)]_vars

\* C21 as stated: after a prepare that sent its update, the stored connector
\* has the config's service type, the adapter's default configuration and
\* status needs_configuration.
C21_Original ==
    [][\A config \in PrepareConfigs, k \in BOOLEAN, u \in BOOLEAN :
         (Prepare(config, k, u) /\ cLast'.outcome = "updated") =>
           /\ cdoc'.service_type = config.service_type
           /\ cdoc'.configuration = SimpleConfiguration(config.service_type)
           /\ cdoc'.status = "needs_configuration"]_vars

\* C21 as amended: after a prepare that sent its update, the stored service
\* type is the config's if the wrapper had none and is untouched otherwise;
\* and the stored configuration is the adapter's default with status
\* needs_configuration if the wrapper's configuration was empty, while
\* otherwise configuration and status are untouched.
C21_PreparePopulates ==
    [][\A config \in PrepareConfigs, k \in BOOLEAN, u \in BOOLEAN :
         (Prepare(config, k, u) /\ cLast'.outcome = "updated") =>
           /\ cdoc'.service_type =
                IF cwrap.service_type = Null THEN config.service_type
                ELSE cdoc.service_type
           /\ IF ConfigIsEmpty(cwrap.configuration)
              THEN /\ cdoc'.configuration = SimpleConfiguration(config.service_type)
                   /\ cdoc'.status = "needs_configuration"
              ELSE /\ cdoc'.configuration = cdoc.configuration
                   /\ cdoc'.status = cdoc.status]_vars

\* a connector without service type and with a configuration was prepared:
\* it got its service type and kept configuration and status
C21_Witness ==
    /\ cLast.op = "prepare"
    /\ cLast.outcome = "updated"
    /\ cdoc.service_type = "jira"
    /\ cdoc.configuration = "filled"
    /\ cdoc.status = "created"

\* C22: once the stored connector has a service type and a non-empty
\* configuration, no operation of the core sets its status to
\* needs_configuration or writes its configuration.
C22_ConfiguredStaysConfigured ==
    [][(/\ cdoc.service_type # Null
        /\ ~ConfigIsEmpty(cdoc.configuration)
        /\ cLast'.op # "configure")
       => /\ cdoc'.configuration = cdoc.configuration
          /\ cdoc'.status = "needs_configuration"
             => cdoc.status = "needs_configuration"]_vars

\* C27: sync_done(job) copies the job's indexed and deleted document counts
\* (0 for a count the job lacks) into last_indexed_document_count and
\* last_deleted_document_count exactly when the job is not null and is
\* terminal; for a null or non-terminal job the two fields keep their values;
\* last_synced is written in every case.
C27_SyncDoneCounts ==
    [][\A job \in SyncDoneJobs :
         SyncDone(job) =>
           /\ cdoc'.last_synced = now
           /\ IF job.present /\ job.status \in {"error", "completed", "canceled"}
              THEN /\ cdoc'.last_indexed_document_count =
                        IF job.indexed_document_count = NoCount THEN 0
                        ELSE job.indexed_document_count
                   /\ cdoc'.last_deleted_document_count =
                        IF job.deleted_document_count = NoCount THEN 0
                        ELSE job.deleted_document_count
              ELSE /\ cdoc'.last_indexed_document_count =
                        cdoc.last_indexed_document_count
                   /\ cdoc'.last_deleted_document_count =
                        cdoc.last_deleted_document_count]_vars

\* a later sync_done with a suspended job carrying other counts kept the
\* counts of an earlier terminal job and wrote last_synced
C27_Witness ==
    /\ cLast.op = "sync_done"
    /\ cLast.job.status = "suspended"
    /\ cLast.job.indexed_document_count = NoCount
    /\ cdoc.last_indexed_document_count = 3
    /\ cdoc.last_deleted_document_count = 0
    /\ cdoc.last_synced = now
    /\ now > 1

\* C28: sync_now is one-shot. A handling that creates a job creates exactly
\* one, on_demand if the handled connector had sync_now and scheduled if not;
\* its reset leaves sync_now false in the index; there are never more
\* on_demand jobs than requests; next_sync returns 0 on a later tick only if
\* sync_now is up in the index again; and a job created while sync_now is
\* false in the index is scheduled.
C28_SyncNowOneShot ==
    /\ [](orch.pc \in {"created", "reset", "started"} =>
            /\ StoredJobs \ orch.before = {orch.job}
            /\ jobs[orch.job].trigger_method =
                 IF cwrap.sync_now = "true" THEN "on_demand" ELSE "scheduled")
    /\ [](Cardinality({j \in JobIds : jobs[j].trigger_method = "on_demand"})
            <= orch.requests)
    /\ [][OrchReset => cdoc'.sync_now = "false"]_vars
    /\ [][(OrchNextSync /\ cLast'.ret = 0) => cdoc.sync_now = "true"]_vars
    /\ [][(OrchCreate /\ cdoc.sync_now # "true") =>
            \A j \in JobIds :
                jobs'[j] # jobs[j] => jobs'[j].trigger_method = "scheduled"]_vars

\* a request was handled with one on_demand job, and on the next tick
\* sync_now is false in the index and next_sync does not return 0
C28_Witness ==
    /\ now > 1
    /\ orch.requests = 1
    /\ Cardinality({j \in JobIds : jobs[j].trigger_method = "on_demand"}) = 1
    /\ cdoc.sync_now = "false"
    /\ cLast.op = "next_sync"
    /\ cLast.ret # 0

-----------------------------------------------------------------------------
(* Claims about the index queries *)

\* C24: supported_connectors(native_types, ids) yields exactly the connectors
\* that are native with a service type in native_types or not native with an
\* id in ids, whichever of the two arguments are empty; with both empty it
\* yields nothing and sends no query.
C24_SupportedConnectors ==
    qLast.op = "supported_connectors" =>
        /\ qLast.result =
             {id \in IndexedIds :
                /\ cindex[id].present
                /\ \/ /\ cindex[id].is_native = "true"
                      /\ cindex[id].service_type \in qLast.native_service_types
                   \/ /\ cindex[id].is_native = "false"
                      /\ id \in qLast.connector_ids}
        /\ (qLast.native_service_types = {} /\ qLast.connector_ids = {})
             => (qLast.result = {} /\ ~qLast.queried)

\* both arguments were given and the call yielded a native connector and a
\* custom one
C24_Witness ==
    /\ qLast.op = "supported_connectors"
    /\ qLast.native_service_types # {}
    /\ qLast.connector_ids # {}
    /\ \E a, b \in qLast.result :
         cindex[a].is_native = "true" /\ cindex[b].is_native = "false"

\* C25: idle_jobs(ids) returns exactly the jobs of a connector in ids, in
\* status in_progress or canceling, last seen IDLE_JOBS_THRESHOLD seconds ago
\* or earlier: a job last seen 61 s ago is returned, one last seen 59 s ago
\* is not, nor is a job in another status or of a connector outside ids.
C25_IdleJobs ==
    qLast.op = "idle_jobs" =>
        \A j \in JobIds :
            /\ j \in qLast.result <=>
                  /\ jobs[j].status \in {"in_progress", "canceling"}
                  /\ jobs[j].connector_id \in qLast.connector_ids
                  /\ now - jobs[j].last_seen >= 60
            /\ (/\ jobs[j].status \in {"in_progress", "canceling"}
                /\ jobs[j].connector_id \in qLast.connector_ids
                /\ now - jobs[j].last_seen = 61) => j \in qLast.result
            /\ now - jobs[j].last_seen = 59 => j \notin qLast.result

\* of two in_progress jobs of a known connector, the one last seen 61 s ago
\* was returned and the one last seen 59 s ago was not
C25_Witness ==
    /\ qLast.op = "idle_jobs"
    /\ \E j1, j2 \in JobIds :
        /\ jobs[j1].status = "in_progress" /\ jobs[j2].status = "in_progress"
        /\ jobs[j1].connector_id = jobs[j2].connector_id
        /\ now - jobs[j1].last_seen = 61
        /\ now - jobs[j2].last_seen = 59
        /\ j1 \in qLast.result
        /\ j2 \notin qLast.result

\* C26: orphaned_jobs returns exactly the jobs whose connector id is not in
\* the known set, whatever their status; the orphan reaper deletes exactly
\* those jobs and leaves every job of a known connector as it was.
C26_OrphanReaper ==
    /\ qLast.op = "orphaned_jobs" =>
         qLast.result = {j \in JobIds : /\ jobs[j].status \in JobStatuses
                                        /\ jobs[j].connector_id \notin qLast.connector_ids}
    /\ qLast.op = "reap_orphans" =>
         \A j \in JobIds :
            IF /\ qLast.before[j].status \in JobStatuses
               /\ qLast.before[j].connector_id \notin qLast.connector_ids
            THEN jobs[j].status = "absent"
            ELSE jobs[j] = qLast.before[j]

\* the reaper deleted an in_progress orphan and kept a job of a known
\* connector
C26_Witness ==
    /\ qLast.op = "reap_orphans"
    /\ \E j1, j2 \in JobIds :
        /\ qLast.before[j1].status = "in_progress"
        /\ qLast.before[j1].connector_id \notin qLast.connector_ids
        /\ jobs[j1].status = "absent"
        /\ jobs[j2].status = "in_progress"
        /\ jobs[j2].connector_id \in qLast.connector_ids

-----------------------------------------------------------------------------
(* Claims about SyncJob._terminate *)

TargetOf(op) ==
    CASE op = "done" -> "completed"
      [] op = "fail" -> "error"
      [] op = "cancel" -> "canceled"
      [] op = "suspend" -> "suspended"

\* C33: the document _terminate sends holds last_seen = now, status = target
\* and error; completed_at (= now) exactly for completed, error and
\* canceled; canceled_at (= now) exactly for canceled, so that cancel
\* stamps both, done and fail only completed_at, suspend neither; metadata
\* exactly when the metadata given is non-empty, and then as given. The
\* stored job keeps what the document does not hold.
C33_TerminateWrites ==
    termLast.op # Null =>
        LET doc == termLast.doc
            keys == DOMAIN doc
            given == termLast.metadata.given /\ DOMAIN termLast.metadata.d # {}
        IN  /\ {"last_seen", "status", "error"} \subseteq keys
            /\ doc.last_seen = termLast.at
            /\ doc.status = TargetOf(termLast.op)
            /\ doc.error = termLast.error
            /\ "completed_at" \in keys <=>
                    doc.status \in {"completed", "error", "canceled"}
            /\ "canceled_at" \in keys <=> doc.status = "canceled"
            /\ "completed_at" \in keys => doc.completed_at = termLast.at
            /\ "canceled_at" \in keys => doc.canceled_at = termLast.at
            /\ termLast.op = "cancel" => {"completed_at", "canceled_at"} \subseteq keys
            /\ termLast.op \in {"done", "fail"} =>
                    "completed_at" \in keys /\ "canceled_at" \notin keys
            /\ termLast.op = "suspend" =>
                    keys \cap {"completed_at", "canceled_at"} = {}
            /\ "metadata" \in keys <=> given
            /\ given => doc.metadata = termLast.metadata.d
            /\ tjob.status = doc.status
            /\ tjob.completed_at =
                    IF "completed_at" \in keys THEN termLast.at
                    ELSE termLast.found.completed_at
            /\ tjob.canceled_at =
                    IF "canceled_at" \in keys THEN termLast.at
                    ELSE termLast.found.canceled_at
            /\ tjob.metadata =
                    IF given THEN termLast.metadata.d ELSE termLast.found.metadata

\* a job holding metadata is canceled with empty metadata and with counts:
\* both timestamps are stamped and the metadata it held is kept
C33_Witness ==
    /\ termLast.op = "cancel"
    /\ termLast.metadata = Given(<<>>)
    /\ termLast.stats.given /\ DOMAIN termLast.stats.d = StatKeys
    /\ termLast.found.status = "in_progress"
    /\ termLast.found.metadata # <<>>
    /\ tjob.metadata = termLast.found.metadata
    /\ tjob.canceled_at = now /\ tjob.completed_at = now
    /\ tjob.indexed_document_count = 7

-----------------------------------------------------------------------------
(* Claims about JiraDataSource._api_call *)

\* the waits of k failed attempts: RETRY_INTERVAL ** 1, ..., RETRY_INTERVAL ** k
Backoff(k) == [n \in 1..k |-> Pow(RETRY_INTERVAL, n)]

C40_SessionsClosed ==
    /\ Unclosed \subseteq {sess.session}
    /\ Cardinality(Unclosed) <= 1
    /\ (\A i \in ApiTasks : api[i].pc \in {"done", "raised"}) /\ ~ENABLED AdapterClose
            => sess.session = NoSession

-----------------------------------------------------------------------------
(* Claims about JiraDataSource._paginated_api_call *)

\* ceil(total / FETCH_SIZE), at least 1
PagesNeeded(total) ==
    IF total = 0 THEN 1 ELSE (total + FetchSize - 1) \div FetchSize

\* C39: the k-th request has start_at = (k - 1) * FETCH_SIZE, and a finished
\* call has made max(1, ceil(total / FETCH_SIZE)) requests: every index
\* below total lies in exactly one requested page, and with total > 0 no
\* request starts at or after total.
C39_PagesCoverTotal ==
    /\ \A k \in 1..Len(pg.requests) : pg.requests[k] = (k - 1) * FetchSize
    /\ pg.pc = "done" =>
        /\ Len(pg.requests) = PagesNeeded(pg.total)
        /\ \A n \in 0..(pg.total - 1) :
                Cardinality({k \in 1..Len(pg.requests) :
                                /\ pg.requests[k] <= n
                                /\ n < pg.requests[k] + FetchSize}) = 1
        /\ pg.total > 0 =>
                \A k \in 1..Len(pg.requests) : pg.requests[k] < pg.total

-----------------------------------------------------------------------------
(* Claims about Features *)

\* the features document holds true under the keys of path, each parent
\* being a mapping
HoldsTrue(path) ==
    LET RECURSIVE At(_, _)
        At(v, ks) ==
            IF ks = <<>> THEN v = JBool(TRUE)
            ELSE /\ v.t = "dict"
                 /\ Head(ks) \in DOMAIN v.d
                 /\ At(v.d[Head(ks)], Tail(ks))
    IN  At(feat, path)

\* C31: sync_rules_enabled() is the OR of sync_rules.basic.enabled,
\* sync_rules.advanced.enabled, filtering_rules and
\* filtering_advanced_config, each false when its key or a parent key is
\* absent; feature_enabled of each of the four names is its own lookup, and
\* of any other name it is false.
C31_SyncRulesEnabled ==
    /\ featLast.op = "sync_rules_enabled" =>
         (featLast.ret <=>
            \/ HoldsTrue(<<"sync_rules", "basic", "enabled">>)
            \/ HoldsTrue(<<"sync_rules", "advanced", "enabled">>)
            \/ HoldsTrue(<<"filtering_rules">>)
            \/ HoldsTrue(<<"filtering_advanced_config">>))
    /\ featLast.op = "feature_enabled" =>
         (Truth(featLast.ret) <=>
            CASE featLast.feature = "basic_rules_new" ->
                    HoldsTrue(<<"sync_rules", "basic", "enabled">>)
              [] featLast.feature = "advanced_rules_new" ->
                    HoldsTrue(<<"sync_rules", "advanced", "enabled">>)
              [] featLast.feature = "basic_rules_old" ->
                    HoldsTrue(<<"filtering_rules">>)
              [] featLast.feature = "advanced_rules_old" ->
                    HoldsTrue(<<"filtering_advanced_config">>)
              [] OTHER -> FALSE)

\* sync rules are enabled by the legacy advanced key alone, under a
\* sync_rules mapping that lacks the key enabled
C31_Witness ==
    /\ featLast.op = "sync_rules_enabled"
    /\ featLast.ret
    /\ HoldsTrue(<<"filtering_advanced_config">>)
    /\ ~HoldsTrue(<<"filtering_rules">>)
    /\ "sync_rules" \in DOMAIN feat.d
    /\ feat.d["sync_rules"].t = "dict"
    /\ "basic" \in DOMAIN feat.d["sync_rules"].d
    /\ feat.d["sync_rules"].d["basic"] = JDict(<<>>)

-----------------------------------------------------------------------------
(* Claims about JiraDataSource.get_docs *)

\* the producers get_docs has started and counted so far
Producers ==
    (IF cpc = "start" THEN {} ELSE {"project", "document"})
    \cup {Grab(i) : i \in {k \in DOMAIN gpc : gpc[k] # "idle"}}

\* the number of sentinels of producer p enqueued so far
SentinelsOf(p) ==
    Cardinality({k \in DOMAIN jqueue : jqueue[k] = FINISHED(p)})
    + Cardinality({k \in DOMAIN jfinished : jfinished[k] = FINISHED(p)})

\* the number of items the Jira server holds
TotalItems ==
    LET RECURSIVE Sum(_)
        Sum(i) == IF i = 0 THEN 0 ELSE jattach[i] + Sum(i - 1)
    IN  NumProjects + NumIssues + Sum(NumIssues)

\* C5: under fair scheduling, get_docs finishes unless a producer raises;
\* no producer enqueues more than one FINISHED sentinel and, when get_docs has
\* finished, each has enqueued exactly one and all were taken; the counter is
\* the number of producers counted minus the number of sentinels taken; and the
\* consume loop is left only with the counter at zero.
C5_GetDocsTerminates ==
    /\ (<>JiraRaised) \/ <>(cpc = "done")
    /\ [](\A p \in Producers : SentinelsOf(p) <= 1)
    /\ [](cpc = "done" =>
            /\ \A p \in Producers : SentinelsOf(p) = 1
            /\ Len(jfinished) = Cardinality(Producers)
            /\ jqueue = <<>>)
    /\ [](jtasks = Cardinality(Producers) - Len(jfinished))
    /\ [](cpc \in {"join", "gather", "done", "raised"} => jtasks = 0)

\* get_docs finished after an attachment producer ran, everything yielded
C5_Witness ==
    /\ cpc = "done"
    /\ ~JiraRaised
    /\ \E i \in DOMAIN gpc : gpc[i] = "done"
    /\ Len(jyielded) = TotalItems

\* a producer waits in queue.put with an item that does not fit
PutWaits ==
    \/ /\ ppc = "put"
       /\ ~QueueFits(IF pnext <= NumProjects THEN Item("project", pnext)
                     ELSE FINISHED("project"))
    \/ /\ dpc = "put"
       /\ ~QueueFits(Item("document", dnext))
    \/ /\ dpc = "fetch" /\ dnext > NumIssues
       /\ ~QueueFits(FINISHED("document"))
    \/ \E i \in Issues :
         /\ gpc[i] = "put"
         /\ ~QueueFits(IF gnext[i] <= jattach[i] THEN Item(Grab(i), gnext[i])
                       ELSE FINISHED(Grab(i)))

\* C29: the sizes of the items in the queue never add up to more than the
\* queue's budget: an item is enqueued only when it fits next to the items
\* already there, and while a put waits for room a get can run and free it.
C29_QueueWithinBudget ==
    /\ [](QueueSize(jqueue) <= QueueCap)
    /\ [][Len(jqueue') > Len(jqueue) =>
            /\ jqueue' = Append(jqueue, jqueue'[Len(jqueue')])
            /\ QueueSize(jqueue) + ItemSize(jqueue'[Len(jqueue')]) <= QueueCap]_vars
    /\ [](PutWaits => ENABLED ConsumerGet)

\* the queue is full and _document_task waits in put with a document that
\* does not fit
C29_Witness ==
    /\ dpc = "put"
    /\ PutWaits
    /\ QueueSize(jqueue) + ItemSize(Item("document", dnext)) > QueueCap

\* C30: the tasks of a ConcurrentTasks pool that run at once never outnumber
\* its slots: put schedules a task only when a slot is free, the scheduled
\* tasks are the running ones, and join returns only when every task
\* submitted is over.
C30_PoolWithinSlots ==
    /\ [](Cardinality(Running) <= PoolSlots)
    /\ [](jfetchers = Running)
    /\ [][Running' \ Running # {} =>
            /\ Cardinality(Running) < PoolSlots
            /\ Cardinality(Running' \ Running) = 1]_vars
    /\ [](dpc = "done" => \A i \in Tasks : i < dnext => gpc[i] \in {"done", "raised"})

\* every slot is busy and the caller waits in put with a further task
C30_Witness ==
    /\ dpc = "spawn"
    /\ dnext <= PoolTasks
    /\ Cardinality(Running) = PoolSlots
    /\ \E i \in Tasks : gpc[i] = "done"

\* the items of producer p among the elements of sequence q, in q's order
RECURSIVE ItemsOf(_, _)
ItemsOf(q, p) ==
    IF q = <<>> THEN <<>>
    ELSE IF Head(q).kind = "doc" /\ Head(q).from = p
         THEN <<Head(q)>> \o ItemsOf(Tail(q), p)
         ELSE ItemsOf(Tail(q), p)

\* the number of items producer p has enqueued
EnqueuedBy(p) ==
    CASE p = "project" -> pnext - 1
      [] p = "document" -> IF dpc = "spawn" THEN dnext ELSE dnext - 1
      [] OTHER -> LET i == CHOOSE k \in Issues : Grab(k) = p IN gnext[i] - 1

\* the number of items producer p has to enqueue in all
ItemsDue(p) ==
    CASE p = "project" -> NumProjects
      [] p = "document" -> NumIssues
      [] OTHER -> LET i == CHOOSE k \in Issues : Grab(k) = p IN jattach[i]

AllProducers == {"project", "document"} \cup {Grab(i) : i \in Issues}

\* producer p was started and has an item or its sentinel left to enqueue
\* (a producer that raised has not)
Pending(p) ==
    CASE p = "project" -> ppc \in {"fetch", "put"}
      [] p = "document" -> dpc \in {"fetch", "put", "spawn"}
      [] OTHER -> LET i == CHOOSE k \in Issues : Grab(k) = p IN gpc[i] = "put"

C6_ExceptionPropagates ==
    (JiraRaised /\ ~ENABLED JiraNext) => cpc = "raised"

====
